---- MODULE Spec2Model ----
(***************************************************************************)
(* Departure extraction, fallback cache and polling coordinator of the     *)
(* RNV / Motis departure sensors (custom_components/rnv).                  *)
(*                                                                         *)
(* Time is counted in whole minutes.  A Python value that may be None is a *)
(* record tagged by the field k: None, an ISO-8601 timestamp string        *)
(* Iso(t), any other string Str(v).  A dictionary key that is not present  *)
(* is Missing.  Destination labels and the destination filter are          *)
(* sequences of characters.                                                *)
(***************************************************************************)
EXTENDS Integers, Sequences, FiniteSets, TLC

VARIABLES
    now,                  \* the clock: datetime.now(UTC) / time.time(), in minutes
    cfg,                  \* the station configuration the sensor and its coordinator were built with
    data,                 \* coordinator.data
    at_info,              \* coordinator._at_info, the credential
    last_valid_state,     \* sensor._last_valid_state
    last_valid_attributes,\* sensor._last_valid_attributes
    restored_state,       \* sensor._restored_state
    restored_attributes,  \* sensor._restored_attributes
    added,                \* async_added_to_hass has run
    hist,                 \* history: the cycles since the last successful one and what was read after it
    ret                   \* the last operation and what it returned

vars == <<now, cfg, data, at_info, last_valid_state, last_valid_attributes,
          restored_state, restored_attributes, added, hist, ret>>

----------------------------------------------------------------------------
(* Bounds of the model *)

\* how many minutes the clock advances in a run
MaxTicks == 2
\* lifetime, in minutes, of a token the token endpoint hands out
TokenLifetime == 1

(* Program constants *)

\* RNV_DEPARTURE_VALID_MINUTES / Motis_DEPARTURE_VALID_MINUTES
RNV_DEPARTURE_VALID_MINUTES == 5
\* the hour of the day before which the queried window is the long one, and the
\* lengths of the long and of the ordinary window in hours
NightEndHour == 4
NightWindowHours == 5
DayWindowHours == 2

\* the clock at start: late enough that a time more than the window before it exists
StartNow == RNV_DEPARTURE_VALID_MINUTES + 1
MaxNow == StartNow + MaxTicks

----------------------------------------------------------------------------
(* Python values *)

None == [k |-> "None"]
Missing == [k |-> "Missing"]
Unread == [k |-> "Unread"]
\* the field of a dictionary that is null where a dictionary is expected: .get on it
\* raises AttributeError
NullDict == [k |-> "NullDict"]
\* datetime.isoformat(): the string of an instant
Iso(t) == [k |-> "iso", t |-> t]
\* a JSON array
List(items) == [k |-> "list", items |-> items]
\* a string that is no timestamp
Str(v) == [k |-> "str", v |-> v]
\* datetime.fromisoformat(): the instant of a string, or ValueError
FromIsoFormat(s) == IF s.k = "iso" THEN [ok |-> TRUE, t |-> s.t] ELSE [ok |-> FALSE]
\* truth value of an optional string
Truthy(s) == s # None /\ s # Missing /\ s # Str("")
\* dict.get(key): None for a key that is not present
Get(v) == IF v = Missing THEN None ELSE v

Min(a, b) == IF a <= b THEN a ELSE b
Max(a, b) == IF a >= b THEN a ELSE b

RECURSIVE Concat(_)
Concat(seqs) == IF seqs = <<>> THEN <<>> ELSE Head(seqs) \o Concat(Tail(seqs))

----------------------------------------------------------------------------
(* Strings as character sequences *)

\* "ae" stands for the single character a-umlaut
Entfaellt == <<"e", "n", "t", "f", "ae", "l", "l", "t">>

\* ch in label
Contains(label, ch) == \E i \in 1..Len(label) : label[i] = ch

Lower(ch) ==
    CASE ch = "E" -> "e" [] ch = "H" -> "h" [] ch = "U" -> "u"
      [] ch = "R" -> "r" [] ch = "L" -> "l" [] OTHER -> ch

RECURSIVE LStrip(_)
LStrip(s) == IF s # <<>> /\ Head(s) = " " THEN LStrip(Tail(s)) ELSE s
RECURSIVE RStrip(_)
RStrip(s) == IF s # <<>> /\ s[Len(s)] = " " THEN RStrip(SubSeq(s, 1, Len(s) - 1)) ELSE s
\* label.strip().lower()
StripLower(s) == LET t == RStrip(LStrip(s)) IN [i \in 1..Len(t) |-> Lower(t[i])]

\* re.compile(pattern).search(label) for a pattern of literal characters
Search(pattern, label) ==
    \E i \in 0..(Len(label) - Len(pattern)) :
        \A j \in 1..Len(pattern) : label[i + j] = pattern[j]

----------------------------------------------------------------------------
(* Sorting *)

\* list.sort(key=...): stable, ascending by the field t
RECURSIVE InsertByTime(_, _)
InsertByTime(x, sorted) ==
    IF sorted = <<>> THEN <<x>>
    ELSE IF Head(sorted).t <= x.t THEN <<Head(sorted)>> \o InsertByTime(x, Tail(sorted))
    ELSE <<x>> \o sorted
RECURSIVE SortFrom(_, _)
SortFrom(seq, acc) ==
    IF seq = <<>> THEN acc ELSE SortFrom(Tail(seq), InsertByTime(Head(seq), acc))
SortByTimeUnsorted(seq) == seq
SortByTime(seq) == SortFrom(seq, <<>>)

----------------------------------------------------------------------------
(* Departure Normalizer, GraphQL station/journeys schema (RNVBaseSensor) *)

\* coordinator.data["data"]["station"]["journeys"]["elements"], or KeyError / TypeError;
\* iterable says whether the value found is a list, elements are its items
RnvElements(d) ==
    IF d = None \/ ~("data" \in DOMAIN d) THEN [ok |-> FALSE]
    ELSE IF d.data = Missing \/ d.data = None THEN [ok |-> FALSE]
    ELSE IF d.data.station = Missing \/ d.data.station = None THEN [ok |-> FALSE]
    ELSE LET found == d.data.station.journeys.elements
         IN  [ok |-> TRUE, iterable |-> found.k = "list",
              elements |-> IF found.k = "list" THEN found.items ELSE <<>>]

\* the stops of a journey without the invalid ones and the ones the destination filter rejects
GetDesiredStopsFullMatch(journey, c) ==
    LET filtered == SelectSeq(journey.stops, LAMBDA s : ~Contains(s.dest, "$"))
    IN  IF c.dest_filter # <<>>
        THEN SelectSeq(filtered, LAMBDA s : s.dest = c.dest_filter)
        ELSE filtered
GetDesiredStops(journey, c) ==
    LET filtered == SelectSeq(journey.stops, LAMBDA s : ~Contains(s.dest, "$"))
    IN  IF c.dest_filter # <<>>
        THEN SelectSeq(filtered, LAMBDA s : Search(c.dest_filter, s.dest))
        ELSE filtered

\* journey["stops"] = filtered_stops, for every journey of the payload
RnvWriteBackFirstJourney(d, c) ==
    IF ~RnvElements(d).ok \/ ~RnvElements(d).iterable THEN d
    ELSE LET els == d.data.station.journeys.elements.items
             new == [i \in 1..Len(els) |-> [els[i] EXCEPT !.stops = GetDesiredStops(els[1], c)]]
         IN  [d EXCEPT !.data.station.journeys.elements = List(new)]
RnvWriteBack(d, c) ==
    IF ~RnvElements(d).ok \/ ~RnvElements(d).iterable THEN d
    ELSE LET els == d.data.station.journeys.elements.items
             new == [i \in 1..Len(els) |-> [els[i] EXCEPT !.stops = GetDesiredStops(els[i], c)]]
         IN  [d EXCEPT !.data.station.journeys.elements = List(new)]

\* the (journey, stop) pairs the loops visit, in order
RnvPairsAllStops(els, c) ==
    Concat([i \in 1..Len(els) |->
        LET st == Concat([m \in 1..Len(els) |-> GetDesiredStops(els[m], c)])
        IN  [k \in 1..Len(st) |-> [j |-> els[i], s |-> st[k]]]])
RnvPairs(els, c) ==
    Concat([i \in 1..Len(els) |->
        LET st == GetDesiredStops(els[i], c)
        IN  [k \in 1..Len(st) |-> [j |-> els[i], s |-> st[k]]]])

\* platform and line filter of the loop body
RnvFilterSkipsLabelled(p, c) ==
    \/ c.platform # "" /\ Get(p.s.platform) # None /\ Get(p.s.platform) # Str(c.platform)
    \/ c.line # "" /\ Get(p.j.line) # None /\ Get(p.j.line) # Str(c.line)
RnvFilterSkips(p, c) ==
    \/ c.platform # "" /\ Get(p.s.platform) # Str(c.platform)
    \/ c.line # "" /\ Get(p.j.line) # Str(c.line)

\* realtimeDeparture.isoString or plannedDeparture.isoString
RnvDepStr(p) == IF Truthy(p.s.realtime) THEN p.s.realtime ELSE Get(p.s.planned)

\* journey.get("cancelled") or the destination label says so
RnvCancelledFlagOnly(p) == p.j.cancelled
RnvCancelled(p) == p.j.cancelled \/ StripLower(p.s.dest) = Entfaellt

\* dep_time >= earliest_allowed or cancelled
AdmittedNoCancelled(t, cancelled, n) == t >= n - RNV_DEPARTURE_VALID_MINUTES
AdmittedStrict(t, cancelled, n) == t > n - RNV_DEPARTURE_VALID_MINUTES \/ cancelled
Admitted(t, cancelled, n) == t >= n - RNV_DEPARTURE_VALID_MINUTES \/ cancelled

\* the first journey with a stop that the loop body reaches and whose realtimeDeparture
\* is null where a dictionary is expected; 0 if there is none
RnvRaisesAt(els, c) ==
    LET raising == {i \in 1..Len(els) :
                       \E k \in 1..Len(GetDesiredStops(els[i], c)) :
                           LET p == [j |-> els[i], s |-> GetDesiredStops(els[i], c)[k]]
                           IN  ~RnvFilterSkips(p, c) /\ p.s.realtime = NullDict}
    IN  IF raising = {} THEN 0 ELSE CHOOSE i \in raising : \A m \in raising : i <= m

\* journey["stops"] = filtered_stops for the journeys visited before the loop was left
RnvWriteBackUpTo(d, c, last) ==
    LET els == d.data.station.journeys.elements.items
        new == [i \in 1..Len(els) |->
                   IF i <= last THEN [els[i] EXCEPT !.stops = GetDesiredStops(els[i], c)]
                   ELSE els[i]]
    IN  [d EXCEPT !.data.station.journeys.elements = List(new)]

\* the pairs that pass the filters and carry a timestamp that parses
RnvCandidates(els, c) ==
    SelectSeq(RnvPairs(els, c), LAMBDA p :
        /\ ~RnvFilterSkips(p, c)
        /\ Truthy(RnvDepStr(p))
        /\ FromIsoFormat(RnvDepStr(p)).ok)

\* the pairs appended to the list
RnvAdmittedPairs(els, c, n) ==
    SelectSeq(RnvCandidates(els, c), LAMBDA p :
        Admitted(FromIsoFormat(RnvDepStr(p)).t, RnvCancelled(p), n))

\* time_until_departure of a departure diff_seconds from now whose local clock time
\* is the minute clock
UntilDisplayRoundedUp(diff_seconds, clock, cancelled, language) ==
    IF cancelled THEN Str(IF language = "de" THEN "entfaellt" ELSE "cancelled")
    ELSE LET minutes_remaining == Max(0, (diff_seconds + 59) \div 60)
         IN  IF minutes_remaining >= 60 THEN [k |-> "clock", t |-> clock]
             ELSE IF minutes_remaining > 0 THEN [k |-> "min", n |-> minutes_remaining]
             ELSE Str(IF language = "de" THEN "sofort" ELSE "now")
UntilDisplayAt(diff_seconds, clock, cancelled, language) ==
    IF cancelled THEN Str(IF language = "de" THEN "entfaellt" ELSE "cancelled")
    ELSE LET minutes_remaining == Max(0, diff_seconds \div 60)
         IN  IF minutes_remaining >= 60 THEN [k |-> "clock", t |-> clock]
             ELSE IF minutes_remaining > 0 THEN [k |-> "min", n |-> minutes_remaining]
             ELSE Str(IF language = "de" THEN "sofort" ELSE "now")

\* time_until_departure of the departure at minute t, seen at minute n
UntilDisplay(t, cancelled, language, n) ==
    UntilDisplayAt((t - n) * 60, t, cancelled, language)

\* the journey_info dictionary of a pair
RnvJourneyInfo(p, language, n) ==
    LET t == FromIsoFormat(RnvDepStr(p)).t
    IN  [planned_time |-> Get(p.s.planned),
         realtime_time |-> Get(p.s.realtime),
         label |-> Get(p.j.line),
         destination |-> p.s.dest,
         cancelled |-> RnvCancelled(p),
         platform |-> Get(p.s.platform),
         time_until_departure |-> UntilDisplay(t, RnvCancelled(p), language, n)]

\* departures, after departures.sort()
RnvDepartures(d, c, n) ==
    IF ~RnvElements(d).ok THEN <<>>
    ELSE LET ps == RnvAdmittedPairs(RnvElements(d).elements, c, n)
         IN  SortByTime([i \in 1..Len(ps) |-> [t |-> FromIsoFormat(RnvDepStr(ps[i])).t]])

\* journeys_info, after journeys_info.sort(key=...)
RnvJourneysInfo(d, c, language, n) ==
    IF ~RnvElements(d).ok THEN <<>>
    ELSE LET ps == RnvAdmittedPairs(RnvElements(d).elements, c, n)
         IN  SortByTime([i \in 1..Len(ps) |->
                 [t |-> FromIsoFormat(RnvDepStr(ps[i])).t,
                  info |-> RnvJourneyInfo(ps[i], language, n)]])

\* RNVBaseSensor._extract_departure
RnvExtractDeparture(d, c, index, n) ==
    LET departures == RnvDepartures(d, c, n)
    IN  IF index < Len(departures) THEN Iso(departures[index + 1].t) ELSE None

\* RNVBaseSensor._extract_journey_info
RnvExtractJourneyInfo(d, c, index, language, n) ==
    LET journeys_info == RnvJourneysInfo(d, c, language, n)
    IN  IF index < Len(journeys_info) THEN journeys_info[index + 1].info ELSE None

----------------------------------------------------------------------------
(* Departure Normalizer, REST stop-times schema (MotisBaseSensor) *)

\* coordinator.data["stopTimes"], or KeyError / TypeError; iterable says whether the
\* value found is a list, elements are its items
MotisElements(d) ==
    IF d = None \/ ~("stopTimes" \in DOMAIN d) THEN [ok |-> FALSE]
    ELSE IF d.stopTimes = Missing THEN [ok |-> FALSE]
    ELSE [ok |-> TRUE, iterable |-> d.stopTimes.k = "list",
          elements |-> IF d.stopTimes.k = "list" THEN d.stopTimes.items ELSE <<>>]

\* place.get("departure") or place.get("arrival", "")
MotisDepStr(stop) ==
    IF Truthy(stop.departure) THEN stop.departure
    ELSE IF stop.arrival = Missing THEN Str("") ELSE stop.arrival

\* MotisBaseSensor._check_skip_departure
CheckSkipDeparture(dep_str, platform_label, line, c) ==
    \/ c.platform # "" /\ platform_label # Str(c.platform)
    \/ c.line # "" /\ line # Str(c.line)
    \/ dep_str = Str("")

\* a stop that is not skipped and whose dep_str is None: fromisoformat(None) raises
\* TypeError, which the except ValueError clause does not catch
MotisRaisesOn(els, c) ==
    \E i \in 1..Len(els) :
        /\ ~CheckSkipDeparture(MotisDepStr(els[i]),
                               IF els[i].track = Missing THEN Str("") ELSE els[i].track,
                               IF els[i].displayName = Missing THEN Str("") ELSE els[i].displayName, c)
        /\ MotisDepStr(els[i]) = None

\* the stops that pass the filters and carry a timestamp that parses
MotisCandidates(els, c) ==
    SelectSeq(els, LAMBDA stop :
        /\ ~CheckSkipDeparture(MotisDepStr(stop),
                               IF stop.track = Missing THEN Str("") ELSE stop.track,
                               IF stop.displayName = Missing THEN Str("") ELSE stop.displayName, c)
        /\ FromIsoFormat(MotisDepStr(stop)).ok)

\* the journey_info dictionary of a stop
MotisJourneyInfo(stop, language, n) ==
    LET t == FromIsoFormat(MotisDepStr(stop)).t
    IN  [planned_time |-> IF stop.scheduledDeparture = Missing THEN Str("") ELSE stop.scheduledDeparture,
         realtime_time |-> IF stop.departure = Missing THEN Str("") ELSE stop.departure,
         label |-> IF stop.displayName = Missing THEN Str("") ELSE stop.displayName,
         destination |-> stop.headsign,
         cancelled |-> stop.cancelled,
         platform |-> IF stop.track = Missing THEN Str("") ELSE stop.track,
         time_until_departure |-> UntilDisplay(t, stop.cancelled, language, n)]

\* MotisBaseSensor._extract_journey_data
MotisExtractJourneyData(d, c, language, n) ==
    IF ~MotisElements(d).ok THEN <<>>
    ELSE LET ps == SelectSeq(MotisCandidates(MotisElements(d).elements, c), LAMBDA stop :
                       Admitted(FromIsoFormat(MotisDepStr(stop)).t, stop.cancelled, n))
         IN  SortByTime([i \in 1..Len(ps) |->
                 [t |-> FromIsoFormat(MotisDepStr(ps[i])).t,
                  info |-> MotisJourneyInfo(ps[i], language, n)]])

\* MotisBaseSensor._extract_departure
MotisExtractDeparture(d, c, index, language, n) ==
    LET departures == MotisExtractJourneyData(d, c, language, n)
    IN  IF index < Len(departures) THEN Iso(departures[index + 1].t) ELSE None

\* MotisBaseSensor._extract_journey_info
MotisExtractJourneyInfo(d, c, index, language, n) ==
    LET journeys_info == MotisExtractJourneyData(d, c, language, n)
    IN  IF index < Len(journeys_info) THEN journeys_info[index + 1].info ELSE None

----------------------------------------------------------------------------
(* Staleness & Fallback Cache (RNVBaseSensor / MotisBaseSensor) *)

\* _extract_departure of the sensor's variant
ExtractDeparture(d, c, index, n) ==
    IF c.variant = "rnv" THEN RnvExtractDeparture(d, c, index, n)
    ELSE MotisExtractDeparture(d, c, index, c.language, n)

\* _extract_journey_info of the sensor's variant
ExtractJourneyInfo(d, c, index, n) ==
    IF c.variant = "rnv" THEN RnvExtractJourneyInfo(d, c, index, c.language, n)
    ELSE MotisExtractJourneyInfo(d, c, index, c.language, n)

\* the exception that leaves an extraction, or None: TypeError of the loop over an
\* entry list that is no list (the statement is outside the try), AttributeError of
\* .get on a null realtimeDeparture, TypeError of fromisoformat(None); the extraction
\* operators above give the result of an extraction that returns
ExtractException(d, c) ==
    IF c.variant = "rnv"
    THEN IF ~RnvElements(d).ok THEN None
         ELSE IF ~RnvElements(d).iterable THEN Str("TypeError")
         ELSE IF RnvRaisesAt(RnvElements(d).elements, c) > 0 THEN Str("AttributeError")
         ELSE None
    ELSE IF ~MotisElements(d).ok THEN None
         ELSE IF ~MotisElements(d).iterable THEN Str("TypeError")
         ELSE IF MotisRaisesOn(MotisElements(d).elements, c) THEN Str("TypeError")
         ELSE None

ExtractRaises(d, c) == ExtractException(d, c) # None

\* what an extraction that raises leaves in coordinator.data
WriteBackOnRaise(d, c) ==
    IF c.variant = "rnv" /\ RnvElements(d).ok /\ RnvElements(d).iterable
    THEN RnvWriteBackUpTo(d, c, RnvRaisesAt(RnvElements(d).elements, c))
    ELSE d

\* what an extraction leaves in coordinator.data
WriteBack(d, c) == IF c.variant = "rnv" THEN RnvWriteBack(d, c) ELSE d

\* _current_state_for_index: the value returned and _last_valid_state afterwards
CurrentStateCacheFirst(val, lvs, rs, n) ==
    IF lvs # None THEN [ret |-> lvs, lvs |-> lvs]
    ELSE IF val # None THEN [ret |-> val, lvs |-> val]
    ELSE [ret |-> None, lvs |-> lvs]
CurrentStateRestoredStrict(val, lvs, rs, n) ==
    IF val # None THEN [ret |-> val, lvs |-> val]
    ELSE IF lvs # None THEN [ret |-> lvs, lvs |-> lvs]
    ELSE IF Truthy(rs) /\ FromIsoFormat(rs).ok
            /\ FromIsoFormat(rs).t > n - RNV_DEPARTURE_VALID_MINUTES
         THEN [ret |-> rs, lvs |-> lvs]
    ELSE [ret |-> None, lvs |-> lvs]
CurrentStateLastValidAged(val, lvs, rs, n) ==
    IF val # None THEN [ret |-> val, lvs |-> val]
    ELSE IF lvs # None /\ FromIsoFormat(lvs).t >= n - RNV_DEPARTURE_VALID_MINUTES
         THEN [ret |-> lvs, lvs |-> lvs]
    ELSE [ret |-> None, lvs |-> None]
CurrentStateForgetsOnEmpty(val, lvs, rs, n) ==
    IF val # None THEN [ret |-> val, lvs |-> val]
    ELSE IF lvs # None THEN [ret |-> lvs, lvs |-> None]
    ELSE [ret |-> None, lvs |-> lvs]
CurrentStateForIndex(val, lvs, rs, n) ==
    IF val # None THEN [ret |-> val, lvs |-> val]
    ELSE IF lvs # None THEN [ret |-> lvs, lvs |-> lvs]
    ELSE IF Truthy(rs)
         THEN IF ~FromIsoFormat(rs).ok THEN [ret |-> None, lvs |-> lvs]
              ELSE IF FromIsoFormat(rs).t >= n - RNV_DEPARTURE_VALID_MINUTES
                   THEN [ret |-> rs, lvs |-> lvs]
                   ELSE [ret |-> None, lvs |-> lvs]
    ELSE [ret |-> None, lvs |-> lvs]

\* _current_attrs_for_index: the value returned and _last_valid_attributes afterwards
CurrentAttrsForIndex(attrs, lva, ra) ==
    IF attrs # None THEN [ret |-> attrs, lva |-> attrs]
    ELSE IF lva # None THEN [ret |-> lva, lva |-> lva]
    ELSE [ret |-> ra, lva |-> lva]

\* available, given what _current_state_for_index returned
AvailableNoAgeCheck(state, n) == state # None /\ FromIsoFormat(state).ok
Available(state, n) ==
    IF state = None THEN FALSE
    ELSE IF ~FromIsoFormat(state).ok THEN FALSE
    ELSE FromIsoFormat(state).t >= n - RNV_DEPARTURE_VALID_MINUTES

----------------------------------------------------------------------------
(* Polling Coordinator (RNVCoordinator) *)

Raise == [k |-> "raise"]
Dict(v) == [k |-> "dict", v |-> v]
\* how a call ended: "raise", "None", "dict", or "no_token" for a token response
\* without access_token
OutKind(o) ==
    IF o.k = "dict" /\ "access_token" \in DOMAIN o.v /\ o.v.access_token = Missing
    THEN "no_token" ELSE o.k
Call(req, o) == [req |-> req, out |-> OutKind(o)]

\* a non-empty dictionary
TruthyDict(o) == o.k = "dict"

\* _fetch_combined_data, given how the two queries end
FetchCombinedData(rnv, vrn) ==
    LET rnv_data == IF rnv.k = "dict" THEN rnv.v ELSE None
        vrn_data == IF vrn.k = "dict" THEN vrn.v ELSE None
        calls == <<Call("rnv", rnv), Call("vrn", vrn)>>
    IN  IF rnv_data = None /\ vrn_data = None
        THEN [status |-> "UpdateFailed", data |-> None, calls |-> calls]
        ELSE IF \/ rnv_data # None /\ rnv_data.data = None
                \/ vrn_data # None /\ vrn_data.data = None
        THEN [status |-> "TypeError", data |-> None, calls |-> calls]
        ELSE [status |-> "ok",
              data |-> [data |->
                  [station |-> IF rnv_data # None /\ rnv_data.data # Missing
                                  /\ rnv_data.data.station # Missing
                               THEN rnv_data.data.station ELSE None,
                   vrnStops |-> IF vrn_data # None /\ vrn_data.data # Missing
                                   /\ vrn_data.data.vrnStops # Missing
                                THEN vrn_data.data.vrnStops ELSE None]],
              calls |-> calls]

\* the data fetch of _async_update_data, given how the queries end
FetchNullAsPayload(c, rnv, vrn) ==
    IF rnv.k = "raise"
    THEN [status |-> "UpdateFailed", data |-> None, calls |-> <<Call("rnv", rnv)>>]
    ELSE [status |-> "ok", data |-> IF rnv = None THEN None ELSE rnv.v,
          calls |-> <<Call("rnv", rnv)>>]
FetchRetrying(c, rnv, vrn) ==
    IF c.use_vrn THEN FetchCombinedData(rnv, vrn)
    ELSE IF rnv.k = "raise" \/ rnv = None
         THEN [status |-> "UpdateFailed", data |-> None,
               calls |-> <<Call("rnv", rnv), Call("rnv", rnv)>>]
         ELSE [status |-> "ok", data |-> rnv.v, calls |-> <<Call("rnv", rnv)>>]
Fetch(c, rnv, vrn) ==
    IF c.use_vrn THEN FetchCombinedData(rnv, vrn)
    ELSE IF rnv.k = "raise" \/ rnv = None
         THEN [status |-> "UpdateFailed", data |-> None, calls |-> <<Call("rnv", rnv)>>]
         ELSE [status |-> "ok", data |-> rnv.v, calls |-> <<Call("rnv", rnv)>>]

\* _async_update_data: how the cycle ends, the payload returned, the credential
\* afterwards and the requests issued, in order
AsyncUpdateDataFetchAnyway(at, n, c, tok, rnv, vrn) ==
    LET f == Fetch(c, rnv, vrn)
    IN  IF n >= at.expires_on
        THEN [status |-> IF tok.k = "dict" /\ tok.v.access_token # Missing
                         THEN f.status ELSE "UpdateFailed",
              data |-> f.data,
              at_info |-> IF tok.k = "dict" /\ tok.v.access_token # Missing THEN tok.v ELSE at,
              calls |-> <<Call("token", tok)>> \o f.calls]
        ELSE [status |-> f.status, data |-> f.data, at_info |-> at, calls |-> f.calls]
AsyncUpdateDataStoresAnyResponse(at, n, c, tok, rnv, vrn) ==
    LET f == Fetch(c, rnv, vrn)
    IN  IF n >= at.expires_on
        THEN IF tok.k = "dict" /\ tok.v.access_token # Missing
             THEN [status |-> f.status, data |-> f.data, at_info |-> tok.v,
                   calls |-> <<Call("token", tok)>> \o f.calls]
             ELSE [status |-> "UpdateFailed", data |-> None,
                   at_info |-> IF tok.k = "dict" THEN tok.v ELSE at,
                   calls |-> <<Call("token", tok)>>]
        ELSE [status |-> f.status, data |-> f.data, at_info |-> at, calls |-> f.calls]
AsyncUpdateData(at, n, c, tok, rnv, vrn) ==
    IF n >= at.expires_on
    THEN IF tok.k = "raise"
         THEN [status |-> "UpdateFailed", data |-> None, at_info |-> at,
               calls |-> <<Call("token", tok)>>]
         ELSE IF tok.k = "dict" /\ tok.v.access_token # Missing
         THEN LET f == Fetch(c, rnv, vrn)
              IN  [status |-> f.status, data |-> f.data, at_info |-> tok.v,
                   calls |-> <<Call("token", tok)>> \o f.calls]
         ELSE [status |-> "UpdateFailed", data |-> None, at_info |-> at,
               calls |-> <<Call("token", tok)>>]
    ELSE LET f == Fetch(c, rnv, vrn)
         IN  [status |-> f.status, data |-> f.data, at_info |-> at, calls |-> f.calls]

\* the update method of the stop-times coordinator
MotisUpdateData(out) ==
    IF out.k = "dict"
    THEN [status |-> "ok", data |-> out.v, calls |-> <<Call("stoptimes", out)>>]
    ELSE [status |-> "UpdateFailed", data |-> None, calls |-> <<Call("stoptimes", out)>>]

----------------------------------------------------------------------------
(* Inputs *)

\* the slots of the station/journeys sensors (next, second, third departure) and of
\* the stop-times sensors (next, second, third departure)
Slots == 0..2
MotisSlots == 0..2
Languages == {"de", "en"}

Hbf == <<"H", "b", "f">>

\* a journey of the station/journeys schema with one stop
Journey(t, cancelled) ==
    [line |-> Str("5"), cancelled |-> cancelled,
     stops |-> <<[platform |-> Str("A"), planned |-> Iso(t), realtime |-> Iso(t), dest |-> Hbf]>>]

\* an entry of the stop-times schema
StopTime(t, cancelled) ==
    [track |-> Str("A"), displayName |-> Str("5"), departure |-> Iso(t), arrival |-> Missing,
     scheduledDeparture |-> Iso(t), headsign |-> Hbf, cancelled |-> cancelled]

\* the entries the backend may report, latest first: one ahead of the clock, one that
\* is exactly the window old at the start, and a cancelled one older than the window
Timetable == <<[t |-> StartNow + 2, cancelled |-> FALSE],
               [t |-> StartNow - RNV_DEPARTURE_VALID_MINUTES, cancelled |-> FALSE],
               [t |-> StartNow - RNV_DEPARTURE_VALID_MINUTES - 1, cancelled |-> TRUE]>>

\* the entries of seq at the positions in keep, in order
RECURSIVE Pick(_, _, _)
Pick(seq, keep, i) ==
    IF i > Len(seq) THEN <<>>
    ELSE (IF i \in keep THEN <<seq[i]>> ELSE <<>>) \o Pick(seq, keep, i + 1)

ElementLists ==
    {Pick(Timetable, keep, 1) : keep \in SUBSET (1..Len(Timetable))}

RnvPayload(entries) ==
    [data |-> [station |-> [journeys |-> [elements |-> List(
                   [i \in 1..Len(entries) |-> Journey(entries[i].t, entries[i].cancelled)])]],
               vrnStops |-> Missing]]

\* a stop the backend marks invalid by a "$" in its destination label
InvalidStop ==
    [platform |-> Str("A"), planned |-> Iso(StartNow + 2), realtime |-> Iso(StartNow + 2),
     dest |-> <<"x", "$">>]

\* a payload of two journeys, the first with an invalid stop after its valid one
RnvPayloadInvalidStop ==
    [data |-> [station |-> [journeys |-> [elements |-> List(
                   <<[Journey(StartNow + 2, FALSE) EXCEPT !.stops = @ \o <<InvalidStop>>],
                     Journey(StartNow + 1, FALSE)>>)]],
               vrnStops |-> Missing]]

\* responses of the GraphQL endpoint to the station query
RnvResponses ==
    {Dict(RnvPayload(e)) : e \in ElementLists}
    \cup {Dict(RnvPayloadInvalidStop)}
    \cup {Dict([data |-> Missing]), Dict([data |-> None]),
          Dict([data |-> [station |-> None, vrnStops |-> Missing]]),
          Dict([data |-> [station |-> [journeys |-> [elements |-> None]], vrnStops |-> Missing]])}
RnvOutcomes == {Raise, None} \cup RnvResponses

\* responses of the GraphQL endpoint to the VRN query
VrnOutcomes ==
    {Raise, None, Dict([data |-> None]),
     Dict([data |-> [station |-> Missing, vrnStops |-> List(<<"stop">>)]])}

\* responses of the token endpoint
TokenOutcomes(n) ==
    {Raise, None,
     Dict([access_token |-> Missing, expires_on |-> n + TokenLifetime]),
     Dict([access_token |-> Str("t1"), expires_on |-> n + TokenLifetime])}

\* responses of the stop-times endpoint
MotisOutcomes ==
    {Raise, None, Dict([stopTimes |-> Missing]), Dict([stopTimes |-> None])}
    \cup {Dict([stopTimes |-> List([i \in 1..Len(e) |-> StopTime(e[i].t, e[i].cancelled)])]) :
             e \in ElementLists}

\* the attributes the host persisted with a state
PersistedAttributes(t) ==
    [planned_time |-> Iso(t), realtime_time |-> Iso(t), label |-> Str("5"),
     destination |-> Hbf, cancelled |-> FALSE, platform |-> Str("A"),
     time_until_departure |-> Str("now")]

\* the departure of the persisted state: 4 minutes before the start, so that it is
\* 4, 5 and 6 minutes in the past as the clock advances
RestoredTime == StartNow - RNV_DEPARTURE_VALID_MINUTES + 1

\* what async_get_last_state may return: nothing, the state of an unavailable entity,
\* or an earlier departure
LastStates ==
    {None,
     [state |-> Str("unavailable"), attributes |-> None],
     [state |-> Iso(RestoredTime), attributes |-> PersistedAttributes(RestoredTime)]}

\* a station configuration without filters; language is hass.config.language
NoFilters(variant, index, use_vrn, language) ==
    [variant |-> variant, index |-> index, use_vrn |-> use_vrn, language |-> language,
     platform |-> "", line |-> "", dest_filter |-> <<>>]

\* a sensor of each slot on either backend
Configs ==
    {NoFilters("rnv", i, FALSE, "de") : i \in Slots}
    \cup {NoFilters("motis", i, FALSE, "en") : i \in MotisSlots}

\* the coordinator alone, single-source and combined
CoordConfigs == {NoFilters("rnv", 0, u, "de") : u \in BOOLEAN}

----------------------------------------------------------------------------
(* The sensor of one slot and its coordinator *)

Init ==
    /\ now = StartNow
    /\ cfg \in Configs
    /\ data = None
    /\ at_info = [access_token |-> Str("t0"), expires_on |-> MaxNow + 1]
    /\ last_valid_state = None
    /\ last_valid_attributes = None
    /\ restored_state = None
    /\ restored_attributes = None
    /\ added = FALSE
    /\ hist = [phase |-> "none", fresh |-> Unread, at |-> 0, auth |-> FALSE]
    /\ ret = [op |-> "init"]

\* async_added_to_hass, were the host to call it again for an entity already added
AddedToHassAgain ==
    /\ \E last_state \in LastStates :
        /\ restored_state' = IF last_state # None THEN last_state.state ELSE restored_state
        /\ restored_attributes' =
               IF last_state # None THEN last_state.attributes ELSE restored_attributes
    /\ added' = TRUE
    /\ ret' = [op |-> "added"]
    /\ UNCHANGED <<now, cfg, data, at_info, last_valid_state, last_valid_attributes, hist>>

\* async_added_to_hass
AddedToHass ==
    /\ ~added
    /\ \E last_state \in LastStates :
        /\ restored_state' = IF last_state # None THEN last_state.state ELSE restored_state
        /\ restored_attributes' =
               IF last_state # None THEN last_state.attributes ELSE restored_attributes
    /\ added' = TRUE
    /\ ret' = [op |-> "added"]
    /\ UNCHANGED <<now, cfg, data, at_info, last_valid_state, last_valid_attributes, hist>>

\* the clock advances by a minute
Tick ==
    /\ now < MaxNow
    /\ now' = now + 1
    /\ ret' = [op |-> "tick"]
    /\ UNCHANGED <<cfg, data, at_info, last_valid_state, last_valid_attributes,
                   restored_state, restored_attributes, added, hist>>

\* the cycle failed at the token request: rejected, unreachable or without access_token
AuthFault(r) ==
    r.status # "ok" /\ Len(r.calls) = 1 /\ r.calls[1].req = "token"

\* the history after a cycle that ended with status
HistAfterCycle(status) ==
    IF status = "ok" THEN [phase |-> "fresh", fresh |-> Unread, at |-> 0, auth |-> FALSE]
    ELSE [hist EXCEPT !.phase = CASE hist.phase = "fresh" -> "fault1"
                                  [] hist.phase = "fault1" -> "fault2"
                                  [] OTHER -> hist.phase]

\* DataUpdateCoordinator refresh: coordinator.data is replaced only by a cycle that succeeds
Refresh(r) ==
    /\ data' = IF r.status = "ok" THEN r.data ELSE data
    /\ hist' = [HistAfterCycle(r.status) EXCEPT !.auth = AuthFault(r)]
    /\ ret' = [op |-> "cycle", status |-> r.status, calls |-> r.calls]

\* one refresh cycle of the RNV coordinator
RnvCycle ==
    /\ added
    /\ cfg.variant = "rnv"
    /\ \E tok \in (IF now >= at_info.expires_on THEN TokenOutcomes(now) ELSE {None}),
          rnv \in RnvOutcomes,
          vrn \in (IF cfg.use_vrn THEN VrnOutcomes ELSE {None}) :
        LET r == AsyncUpdateData(at_info, now, cfg, tok, rnv, vrn)
        IN  /\ Refresh(r)
            /\ at_info' = r.at_info
    /\ UNCHANGED <<now, cfg, last_valid_state, last_valid_attributes,
                   restored_state, restored_attributes, added>>

\* one refresh cycle of the stop-times coordinator
MotisCycle ==
    /\ added
    /\ cfg.variant = "motis"
    /\ \E out \in MotisOutcomes : Refresh(MotisUpdateData(out))
    /\ UNCHANGED <<now, cfg, at_info, last_valid_state, last_valid_attributes,
                   restored_state, restored_attributes, added>>

\* the state property: _current_state_for_index(index)
ReadState ==
    /\ added
    /\ IF ExtractRaises(data, cfg)
       THEN /\ ret' = [op |-> "state_raised", exc |-> ExtractException(data, cfg)]
            /\ data' = WriteBackOnRaise(data, cfg)
            /\ UNCHANGED <<last_valid_state, hist>>
       ELSE /\ LET val == ExtractDeparture(data, cfg, cfg.index, now)
                   r == CurrentStateForIndex(val, last_valid_state, restored_state, now)
               IN  /\ last_valid_state' = r.lvs
                   /\ ret' = [op |-> "state", val |-> r.ret]
                   /\ hist' = IF hist.phase = "fresh" /\ val # None
                              THEN [hist EXCEPT !.fresh = val, !.at = now] ELSE hist
            /\ data' = WriteBack(data, cfg)
    /\ UNCHANGED <<now, cfg, at_info, last_valid_attributes,
                   restored_state, restored_attributes, added>>

\* the extra_state_attributes property: _current_attrs_for_index(index)
ReadAttrs ==
    /\ added
    /\ IF ExtractRaises(data, cfg)
       THEN /\ ret' = [op |-> "attrs_raised", exc |-> ExtractException(data, cfg)]
            /\ data' = WriteBackOnRaise(data, cfg)
            /\ UNCHANGED <<last_valid_attributes>>
       ELSE /\ LET attrs == ExtractJourneyInfo(data, cfg, cfg.index, now)
                   r == CurrentAttrsForIndex(attrs, last_valid_attributes, restored_attributes)
               IN  /\ last_valid_attributes' = r.lva
                   /\ ret' = [op |-> "attrs", val |-> r.ret]
            /\ data' = WriteBack(data, cfg)
    /\ UNCHANGED <<now, cfg, at_info, last_valid_state,
                   restored_state, restored_attributes, added, hist>>

\* the available property
ReadAvailable ==
    /\ added
    /\ IF ExtractRaises(data, cfg)
       THEN /\ ret' = [op |-> "available_raised", exc |-> ExtractException(data, cfg)]
            /\ data' = WriteBackOnRaise(data, cfg)
            /\ UNCHANGED <<last_valid_state>>
       ELSE /\ LET val == ExtractDeparture(data, cfg, cfg.index, now)
                   r == CurrentStateForIndex(val, last_valid_state, restored_state, now)
               IN  /\ last_valid_state' = r.lvs
                   /\ ret' = [op |-> "available", available |-> Available(r.ret, now)]
            /\ data' = WriteBack(data, cfg)
    /\ UNCHANGED <<now, cfg, at_info, last_valid_attributes,
                   restored_state, restored_attributes, added, hist>>

Next ==
    \/ AddedToHass
    \/ Tick
    \/ RnvCycle
    \/ MotisCycle
    \/ ReadState
    \/ ReadAttrs
    \/ ReadAvailable

Spec == Init /\ [][Next]_vars

----------------------------------------------------------------------------
(* The coordinator alone: its credential expires during the run *)

InitCoord ==
    /\ now = StartNow
    /\ cfg \in CoordConfigs
    /\ data = None
    /\ at_info \in {[access_token |-> Str("t0"), expires_on |-> e] : e \in {StartNow, StartNow + 1}}
    /\ last_valid_state = None
    /\ last_valid_attributes = None
    /\ restored_state = None
    /\ restored_attributes = None
    /\ added = TRUE
    /\ hist = [phase |-> "none", fresh |-> Unread, at |-> 0, auth |-> FALSE]
    /\ ret = [op |-> "init"]

NextCoord ==
    \/ Tick
    \/ RnvCycle

SpecCoord == InitCoord /\ [][NextCoord]_vars

----------------------------------------------------------------------------
(* The sensor of the next departure with a credential that expires during the run *)

InitAuth ==
    /\ now = StartNow
    /\ cfg = NoFilters("rnv", 0, FALSE, "de")
    /\ data = None
    /\ at_info = [access_token |-> Str("t0"), expires_on |-> StartNow + 1]
    /\ last_valid_state = None
    /\ last_valid_attributes = None
    /\ restored_state = None
    /\ restored_attributes = None
    /\ added = FALSE
    /\ hist = [phase |-> "none", fresh |-> Unread, at |-> 0, auth |-> FALSE]
    /\ ret = [op |-> "init"]

NextAuth ==
    \/ AddedToHass
    \/ Tick
    \/ RnvCycle
    \/ ReadState
    \/ ReadAvailable

SpecAuth == InitAuth /\ [][NextAuth]_vars

----------------------------------------------------------------------------
(* The normalizer alone: payloads of either schema, filters, one extraction *)

Uni == <<"U", "n", "i">>
Marked == <<"x", "$">>
EntfaelltLabel == <<" ", "E", "n", "t", "f", "ae", "l", "l", "t">>

Ahead == StartNow + 2
Boundary == StartNow - RNV_DEPARTURE_VALID_MINUTES
Old == StartNow - RNV_DEPARTURE_VALID_MINUTES - 1

\* stops of the station/journeys schema: on time, planned time only, at the edge of
\* the window, cancelled by its label, marked invalid, with a timestamp that does
\* not parse, old, without a platform, with a null realtimeDeparture
RnvStops ==
    {[platform |-> Str("A"), planned |-> Iso(Ahead), realtime |-> Iso(Ahead), dest |-> Hbf],
     [platform |-> Missing, planned |-> Iso(Ahead), realtime |-> Iso(Ahead), dest |-> Hbf],
     [platform |-> Str("B"), planned |-> Iso(Old), realtime |-> None, dest |-> Uni],
     [platform |-> Str("A"), planned |-> Iso(Old), realtime |-> Iso(Boundary), dest |-> Hbf],
     [platform |-> Str("A"), planned |-> Iso(Old), realtime |-> Iso(Old), dest |-> EntfaelltLabel],
     [platform |-> Str("A"), planned |-> Iso(Ahead), realtime |-> Iso(Ahead), dest |-> Marked],
     [platform |-> Missing, planned |-> Iso(Ahead), realtime |-> Str("garbage"), dest |-> Hbf],
     [platform |-> Str("A"), planned |-> Iso(Old), realtime |-> Iso(Old), dest |-> Hbf],
     [platform |-> Str("A"), planned |-> Iso(Ahead), realtime |-> NullDict, dest |-> Hbf]}

\* payloads of two journeys, the first with two stops
RnvNormPayloads ==
    {[data |-> [station |-> [journeys |-> [elements |-> List(
        <<[line |-> Str("5"), cancelled |-> c1, stops |-> <<s1, s2>>],
          [line |-> l2, cancelled |-> c2, stops |-> <<s3>>]>>)]],
                vrnStops |-> Missing]] :
        s1 \in RnvStops, s2 \in RnvStops, s3 \in RnvStops,
        c1 \in BOOLEAN, c2 \in BOOLEAN, l2 \in {Str("5"), Missing}}

\* entries of the stop-times schema
MotisStops ==
    {[track |-> Str("A"), displayName |-> Str("5"), departure |-> Iso(Ahead), arrival |-> Missing,
      scheduledDeparture |-> Iso(Ahead), headsign |-> Hbf, cancelled |-> FALSE],
     [track |-> Missing, displayName |-> Str("5"), departure |-> Iso(Ahead), arrival |-> Missing,
      scheduledDeparture |-> Iso(Ahead), headsign |-> Hbf, cancelled |-> FALSE],
     [track |-> Str("B"), displayName |-> Str("5"), departure |-> None, arrival |-> Iso(Old),
      scheduledDeparture |-> Iso(Old), headsign |-> Uni, cancelled |-> TRUE],
     [track |-> Str("A"), displayName |-> Str("7"), departure |-> Iso(Boundary), arrival |-> Missing,
      scheduledDeparture |-> Iso(Old), headsign |-> Hbf, cancelled |-> FALSE],
     [track |-> Missing, displayName |-> Missing, departure |-> Missing, arrival |-> Missing,
      scheduledDeparture |-> Missing, headsign |-> Hbf, cancelled |-> FALSE],
     [track |-> Str("A"), displayName |-> Str("5"), departure |-> Str("garbage"), arrival |-> Missing,
      scheduledDeparture |-> Iso(Ahead), headsign |-> Hbf, cancelled |-> FALSE],
     [track |-> Str("A"), displayName |-> Str("5"), departure |-> Iso(Old), arrival |-> Missing,
      scheduledDeparture |-> Iso(Old), headsign |-> Hbf, cancelled |-> FALSE],
     [track |-> Str("A"), displayName |-> Str("5"), departure |-> Iso(Old), arrival |-> Missing,
      scheduledDeparture |-> Iso(Old), headsign |-> Hbf, cancelled |-> TRUE],
     [track |-> Str("A"), displayName |-> Str("5"), departure |-> None, arrival |-> None,
      scheduledDeparture |-> Iso(Ahead), headsign |-> Hbf, cancelled |-> FALSE]}

MotisNormPayloads ==
    {[stopTimes |-> List(<<s1, s2, s3>>)] : s1 \in MotisStops, s2 \in MotisStops, s3 \in MotisStops}

NormConfigs(variant) ==
    {[variant |-> variant, index |-> 0, use_vrn |-> FALSE, language |-> lang,
      platform |-> p, line |-> l, dest_filter |-> f] :
        lang \in Languages, p \in {"", "A"}, l \in {"", "5"},
        f \in (IF variant = "rnv" THEN {<<>>, <<"b">>} ELSE {<<>>})}

InitNorm ==
    /\ now = StartNow
    /\ \E variant \in {"rnv", "motis"} :
        /\ cfg \in NormConfigs(variant)
        /\ data \in (IF variant = "rnv" THEN RnvNormPayloads ELSE MotisNormPayloads)
    /\ at_info = [access_token |-> Str("t0"), expires_on |-> MaxNow + 1]
    /\ last_valid_state = None
    /\ last_valid_attributes = None
    /\ restored_state = None
    /\ restored_attributes = None
    /\ added = TRUE
    /\ hist = [phase |-> "none", fresh |-> Unread, at |-> 0, auth |-> FALSE]
    /\ ret = [op |-> "init"]

\* the list _extract_departure builds and sorts
Departures(d, c, n) ==
    IF c.variant = "rnv" THEN RnvDepartures(d, c, n)
    ELSE MotisExtractJourneyData(d, c, c.language, n)

\* the list _extract_journey_info builds and sorts
JourneysInfo(d, c, n) ==
    IF c.variant = "rnv" THEN RnvJourneysInfo(d, c, c.language, n)
    ELSE MotisExtractJourneyData(d, c, c.language, n)

\* one call of _extract_departure; raw is the payload it was given
NormDeparture ==
    /\ IF ExtractRaises(data, cfg)
       THEN /\ ret' = [op |-> "extract_raised", raw |-> data, exc |-> ExtractException(data, cfg)]
            /\ data' = WriteBackOnRaise(data, cfg)
       ELSE /\ ret' = [op |-> "extract_departure", raw |-> data,
                       list |-> Departures(data, cfg, now),
                       val |-> ExtractDeparture(data, cfg, cfg.index, now)]
            /\ data' = WriteBack(data, cfg)
    /\ UNCHANGED <<now, cfg, at_info, last_valid_state, last_valid_attributes,
                   restored_state, restored_attributes, added, hist>>

\* one call of _extract_journey_info; raw is the payload it was given
NormJourneyInfo ==
    /\ IF ExtractRaises(data, cfg)
       THEN /\ ret' = [op |-> "extract_raised", raw |-> data, exc |-> ExtractException(data, cfg)]
            /\ data' = WriteBackOnRaise(data, cfg)
       ELSE /\ ret' = [op |-> "extract_journey_info", raw |-> data,
                       list |-> JourneysInfo(data, cfg, now),
                       val |-> ExtractJourneyInfo(data, cfg, cfg.index, now)]
            /\ data' = WriteBack(data, cfg)
    /\ UNCHANGED <<now, cfg, at_info, last_valid_state, last_valid_attributes,
                   restored_state, restored_attributes, added, hist>>

NextNorm ==
    \/ NormDeparture
    \/ NormJourneyInfo

SpecNorm == InitNorm /\ [][NextNorm]_vars

----------------------------------------------------------------------------
(* The time window of the station query, at every hour of the day *)

\* datetime.hour of an instant counted in minutes, in UTC
HourUtc(n) == (n \div 60) % 24

\* startTime and endTime of the journeys query built at instant n
QueryWindow(n) ==
    [startTime |-> n,
     endTime |-> IF 0 <= HourUtc(n) /\ HourUtc(n) < NightEndHour
                 THEN n + NightWindowHours * 60
                 ELSE n + DayWindowHours * 60]

\* the offsets of local time from UTC in hours: UTC itself, and Europe/Berlin in
\* winter and in summer
UtcOffsets == {0, 1, 2}

\* a station configuration on a host whose local time is UTC + utc_offset hours
HostConfig(utc_offset) ==
    [variant |-> "rnv", index |-> 0, use_vrn |-> FALSE, language |-> "de",
     platform |-> "", line |-> "", dest_filter |-> <<>>, utc_offset |-> utc_offset]

\* the first and the last minute of every hour of a day
InitWindow ==
    /\ now \in {h * 60 + m : h \in 0..23, m \in {0, 59}}
    /\ cfg \in {HostConfig(o) : o \in UtcOffsets}
    /\ data = None
    /\ at_info = [access_token |-> Str("t0"), expires_on |-> 24 * 60 + 1]
    /\ last_valid_state = None
    /\ last_valid_attributes = None
    /\ restored_state = None
    /\ restored_attributes = None
    /\ added = TRUE
    /\ hist = [phase |-> "none", fresh |-> Unread, at |-> 0, auth |-> FALSE]
    /\ ret = [op |-> "init"]

\* the time parameters a cycle prepares for its query
PrepareQuery ==
    /\ ret' = [op |-> "query", startTime |-> QueryWindow(now).startTime,
               endTime |-> QueryWindow(now).endTime]
    /\ UNCHANGED <<now, cfg, data, at_info, last_valid_state, last_valid_attributes,
                   restored_state, restored_attributes, added, hist>>

NextWindow == PrepareQuery

SpecWindow == InitWindow /\ [][NextWindow]_vars

----------------------------------------------------------------------------
(* The display of the time until departure, to the second *)

\* seconds from now to the departure: around the edge of the grace window, around
\* now, around one and two minutes, around the hour, and two hours ahead
DiffSeconds ==
    (-301..-299) \cup (-61..-59) \cup (-1..1) \cup (59..61) \cup (119..121)
    \cup (3539..3541) \cup (3599..3601) \cup {7200}

InitUntil ==
    /\ now = StartNow
    /\ cfg \in {NoFilters("rnv", 0, FALSE, l) : l \in Languages}
    /\ data = None
    /\ at_info = [access_token |-> Str("t0"), expires_on |-> MaxNow + 1]
    /\ last_valid_state = None
    /\ last_valid_attributes = None
    /\ restored_state = None
    /\ restored_attributes = None
    /\ added = TRUE
    /\ hist = [phase |-> "none", fresh |-> Unread, at |-> 0, auth |-> FALSE]
    /\ ret = [op |-> "init"]

\* until_display of one admitted entry
ShowUntil ==
    /\ \E diff \in DiffSeconds, cancelled \in BOOLEAN :
          ret' = [op |-> "until", diff |-> diff, cancelled |-> cancelled,
                  clock |-> (now * 60 + diff) \div 60,
                  display |-> UntilDisplayAt(diff, (now * 60 + diff) \div 60,
                                             cancelled, cfg.language)]
    /\ UNCHANGED <<now, cfg, data, at_info, last_valid_state, last_valid_attributes,
                   restored_state, restored_attributes, added, hist>>

NextUntil ==
    \/ Tick
    \/ ShowUntil

SpecUntil == InitUntil /\ [][NextUntil]_vars

----------------------------------------------------------------------------
(* The sensors of a station whose payload has a cancelled departure in the past *)

\* a cancelled departure 10 minutes before the start and three departures 2, 5 and 8
\* minutes after it
PastCancelled == [t |-> StartNow - 10, cancelled |-> TRUE]
Upcoming == {[t |-> StartNow + m, cancelled |-> FALSE] : m \in {2, 5, 8}}

\* the four entries in every order the backend may report them
ReportOrders ==
    {o \in [1..4 -> {PastCancelled} \cup Upcoming] :
        \A i \in 1..4, j \in 1..4 : i # j => o[i] # o[j]}

InitOrder ==
    /\ now = StartNow
    /\ cfg \in Configs
    /\ \E o \in ReportOrders :
          data = IF cfg.variant = "rnv" THEN RnvPayload(o)
                 ELSE [stopTimes |-> List([i \in 1..4 |-> StopTime(o[i].t, o[i].cancelled)])]
    /\ at_info = [access_token |-> Str("t0"), expires_on |-> MaxNow + 1]
    /\ last_valid_state = None
    /\ last_valid_attributes = None
    /\ restored_state = None
    /\ restored_attributes = None
    /\ added = TRUE
    /\ hist = [phase |-> "none", fresh |-> Unread, at |-> 0, auth |-> FALSE]
    /\ ret = [op |-> "init"]

NextOrder ==
    \/ Tick
    \/ ReadState
    \/ ReadAttrs
    \/ ReadAvailable

SpecOrder == InitOrder /\ [][NextOrder]_vars

----------------------------------------------------------------------------
(* The HTTP client alone (ClientFunctions.get / post) *)

\* an exception that leaves the call
Raised(exc) == [k |-> "raise", exc |-> exc]

\* what the session does with a request: the transport fails, the request times out,
\* or the server answers with a status and a JSON body
HttpStatuses == {200, 400, 401, 404, 429, 500, 503}
HttpBodies == {None} \cup {o.v : o \in RnvResponses}
HttpOutcomes ==
    {[k |-> "ssl"], [k |-> "timeout"], [k |-> "connection"]}
    \cup {[k |-> "response", status |-> st, body |-> b] : st \in HttpStatuses, b \in HttpBodies}

\* resp.raise_for_status(); return await resp.json(), inside the try of _do_get / _do_post
SessionRequest(o) ==
    CASE o.k = "ssl" -> Raised("ClientSSLError")
      [] o.k = "timeout" -> Raised("TimeoutError")
      [] o.k = "connection" -> Raised("ClientError")
      [] OTHER -> IF o.status >= 400 THEN Raised("ClientResponseError")
                  ELSE IF o.body = None THEN None ELSE Dict(o.body)

\* ClientFunctions._do_get: every except clause logs and re-raises
DoGet(o) == SessionRequest(o)

\* ClientFunctions._do_post: every except clause logs and re-raises
DoPost(o) == SessionRequest(o)

InitClient ==
    /\ now = StartNow
    /\ cfg = NoFilters("rnv", 0, FALSE, "de")
    /\ data = None
    /\ at_info = [access_token |-> Str("t0"), expires_on |-> MaxNow + 1]
    /\ last_valid_state = None
    /\ last_valid_attributes = None
    /\ restored_state = None
    /\ restored_attributes = None
    /\ added = FALSE
    /\ hist = [phase |-> "none", fresh |-> Unread, at |-> 0, auth |-> FALSE]
    /\ ret = [op |-> "init"]

\* ClientFunctions.get
ClientGet ==
    /\ \E o \in HttpOutcomes : ret' = [op |-> "get", outcome |-> o, result |-> DoGet(o)]
    /\ UNCHANGED <<now, cfg, data, at_info, last_valid_state, last_valid_attributes,
                   restored_state, restored_attributes, added, hist>>

\* ClientFunctions.post
ClientPost ==
    /\ \E o \in HttpOutcomes : ret' = [op |-> "post", outcome |-> o, result |-> DoPost(o)]
    /\ UNCHANGED <<now, cfg, data, at_info, last_valid_state, last_valid_attributes,
                   restored_state, restored_attributes, added, hist>>

NextClient ==
    \/ Tick
    \/ ClientGet
    \/ ClientPost

SpecClient == InitClient /\ [][NextClient]_vars

----------------------------------------------------------------------------
(* What the claims speak about *)

\* the entry the normalizer yields for the sensor's slot from coordinator.data
FreshEntry == ExtractDeparture(data, cfg, cfg.index, now)
FreshAttrs == ExtractJourneyInfo(data, cfg, cfg.index, now)

\* the payload has the path to the entry list
PayloadParses ==
    IF cfg.variant = "rnv" THEN RnvElements(data).ok ELSE MotisElements(data).ok

\* fresh > cached last-valid > restored-if-fresh-enough > absent
StateResolved(d, c, lvs, rs, n) ==
    LET fresh == ExtractDeparture(d, c, c.index, n) IN
    IF fresh # None THEN fresh
    ELSE IF lvs # None THEN lvs
    ELSE IF rs.k = "iso" /\ rs.t >= n - RNV_DEPARTURE_VALID_MINUTES THEN rs
    ELSE None

AttrsResolved(d, c, lva, ra, n) ==
    LET fresh == ExtractJourneyInfo(d, c, c.index, n) IN
    IF fresh # None THEN fresh
    ELSE IF lva # None THEN lva
    ELSE ra

ResolvedState == StateResolved(data, cfg, last_valid_state, restored_state, now)
ResolvedAttrs == AttrsResolved(data, cfg, last_valid_attributes, restored_attributes, now)

LastCall == ret.calls[Len(ret.calls)]

----------------------------------------------------------------------------
(* C1: fallback precedence *)

ReadFollowsPrecedence == ret'.op = "state" => ret'.val = ResolvedState
FailedCycleKeepsPayload == ret'.op = "cycle" /\ ret'.status # "ok" => data' = data
ReadAfterTwoFaults == ret'.op = "state" /\ hist.phase = "fault2" /\ hist.fresh # Unread

\* the departure times of the normalized list at time n
ListTimes(n) == LET l == Departures(data, cfg, n) IN [k \in 1..Len(l) |-> l[k].t]

\* the normalized list is the same up to the sensor's slot as when the fresh value was read
SameUpToSlot ==
    /\ Len(ListTimes(now)) > cfg.index
    /\ Len(ListTimes(hist.at)) > cfg.index
    /\ \A k \in 1..(cfg.index + 1) : ListTimes(now)[k] = ListTimes(hist.at)[k]

\* C1 as stated: every read of the state resolves fresh > cached > restored-if-recent >
\* absent, and a read after (fresh success, fault, fault) returns the value that was
\* read after the fresh cycle.
C1_Original ==
    [][/\ ReadFollowsPrecedence
       /\ ReadAfterTwoFaults => ret'.val = hist.fresh]_vars

\* C1 amended: every read of the state resolves fresh > cached > restored-if-recent >
\* absent; a failed cycle leaves the coordinator's payload in place, so a read after
\* (fresh success, fault, fault) still normalizes the last fresh payload at the time of
\* the read, and returns the value read after the fresh cycle as long as the
\* normalized list is unchanged up to the slot.
C1_FallbackPrecedence ==
    [][/\ ReadFollowsPrecedence
       /\ FailedCycleKeepsPayload
       /\ ReadAfterTwoFaults /\ SameUpToSlot => ret'.val = hist.fresh]_vars

\* a read after two faults, the clock a minute on, that returns the fresh value
C1_Witness ==
    /\ ret.op = "state"
    /\ hist.phase = "fault2"
    /\ hist.fresh # Unread
    /\ hist.at < now
    /\ ret.val = hist.fresh

----------------------------------------------------------------------------
(* C2: valid empty cycle against fault *)

\* C2 as stated: the first read after a successful cycle whose payload parses but
\* yields no entry for the slot resets the slot's last-valid state, so the earlier
\* departure is no longer exposed; a failed cycle and a read of a malformed payload
\* leave last_valid_state and last_valid_attributes unchanged.
C2_EmptyCycleResetsLastValid ==
    [][/\ (/\ ret.op = "cycle" /\ ret.status = "ok"
           /\ ret'.op = "state"
           /\ PayloadParses /\ FreshEntry = None
           /\ last_valid_state # None)
          => last_valid_state' = None /\ ret'.val = None
       /\ (ret'.op = "cycle" /\ ret'.status # "ok")
          => UNCHANGED <<last_valid_state, last_valid_attributes>>
       /\ (ret'.op \in {"state", "attrs", "available"} /\ ~PayloadParses)
          => UNCHANGED <<last_valid_state, last_valid_attributes>>]_vars

----------------------------------------------------------------------------
(* C3: restored-state decay *)

----------------------------------------------------------------------------
(* C4: availability *)

----------------------------------------------------------------------------
(* C5: token refresh before the fetch *)

\* C5: a cycle that starts with an expired credential requests a token first; if the
\* request raises or returns no access_token the cycle fails and no data is fetched.
C5_TokenBeforeFetch ==
    [][(ret'.op = "cycle" /\ now >= at_info.expires_on)
       => /\ ret'.calls[1].req = "token"
          /\ \A i \in 2..Len(ret'.calls) : ret'.calls[i].req # "token"
          /\ (ret'.calls[1].out # "dict"
                => Len(ret'.calls) = 1 /\ ret'.status = "UpdateFailed")]_vars

C5_Witness ==
    /\ ret.op = "cycle"
    /\ ret.calls = <<[req |-> "token", out |-> "no_token"]>>
    /\ ret.status = "UpdateFailed"

----------------------------------------------------------------------------
(* C6: a failed fetch of the single-source coordinator *)

\* C6: in the single-source coordinator a fetch that raises or returns null ends the
\* cycle as UpdateFailed, the coordinator's payload stays, and what the slot exposes
\* (state and attributes) is the same after the cycle as before it.
C6_FailedFetchKeepsState ==
    [][(/\ ret'.op = "cycle"
        /\ cfg.variant = "rnv" /\ ~cfg.use_vrn
        /\ LastCall'.req = "rnv"
        /\ LastCall'.out \in {"raise", "None"})
       => /\ ret'.status = "UpdateFailed"
          /\ data' = data
          /\ StateResolved(data', cfg', last_valid_state', restored_state', now') = ResolvedState
          /\ AttrsResolved(data', cfg', last_valid_attributes', restored_attributes', now')
                = ResolvedAttrs]_vars

C6_Witness ==
    /\ ret.op = "cycle"
    /\ cfg.variant = "rnv" /\ ~cfg.use_vrn
    /\ ret.calls = <<[req |-> "rnv", out |-> "None"]>>
    /\ ret.status = "UpdateFailed"
    /\ FreshEntry # None

----------------------------------------------------------------------------
(* C7: the combined-source cycle *)

\* C7 as stated: in a combined cycle both queries are issued whatever the first one
\* returns, and the cycle fails if and only if both queries raise or return null.
C7_CombinedIndependent ==
    (ret.op = "cycle" /\ cfg.use_vrn /\ LastCall.req # "token")
    => /\ Len(ret.calls) >= 2
       /\ ret.calls[Len(ret.calls) - 1].req = "rnv"
       /\ LastCall.req = "vrn"
       /\ (ret.status # "ok"
             <=> /\ ret.calls[Len(ret.calls) - 1].out \in {"raise", "None"}
                 /\ LastCall.out \in {"raise", "None"})

----------------------------------------------------------------------------
(* C8: ordering *)

\* C8: the list an extraction builds is non-decreasing by departure time.
C8_Ordering ==
    ret.op \in {"extract_departure", "extract_journey_info"}
    => \A i \in 1..Len(ret.list), j \in 1..Len(ret.list) :
           i < j => ret.list[i].t <= ret.list[j].t

\* three entries that came out in another order than they went in
C8_Witness ==
    /\ ret.op = "extract_journey_info"
    /\ Len(ret.list) = 3
    /\ ret.list[1].t < ret.list[3].t
    /\ cfg.variant = "motis"
    /\ ret.raw.stopTimes.items[1].departure = Iso(Ahead)

----------------------------------------------------------------------------
(* C9: admission window *)

\* the entries of a payload that pass the filters and carry a timestamp that parses
CandidateEntries(d, c) ==
    IF c.variant = "rnv"
    THEN IF ~RnvElements(d).ok THEN <<>>
         ELSE LET ps == RnvCandidates(RnvElements(d).elements, c)
              IN  [i \in 1..Len(ps) |->
                      [t |-> FromIsoFormat(RnvDepStr(ps[i])).t, cancelled |-> RnvCancelled(ps[i])]]
    ELSE IF ~MotisElements(d).ok THEN <<>>
         ELSE LET ps == MotisCandidates(MotisElements(d).elements, c)
              IN  [i \in 1..Len(ps) |->
                      [t |-> FromIsoFormat(MotisDepStr(ps[i])).t, cancelled |-> ps[i].cancelled]]

CountAt(list, t) == Cardinality({i \in 1..Len(list) : list[i].t = t})

\* C9: of the entries that pass the filters, exactly those whose time is at or after
\* now minus 5 minutes or that are cancelled are in the list.
C9_Admission ==
    ret.op \in {"extract_departure", "extract_journey_info"}
    => LET cands == CandidateEntries(ret.raw, cfg)
       IN  \A t \in {Ahead, Boundary, Old} :
               CountAt(ret.list, t) =
                   Cardinality({k \in 1..Len(cands) :
                       /\ cands[k].t = t
                       /\ (t >= now - RNV_DEPARTURE_VALID_MINUTES \/ cands[k].cancelled)})

\* a cancelled and a non-cancelled entry with the same old timestamp: one is listed
C9_Witness ==
    /\ ret.op = "extract_journey_info"
    /\ LET cands == CandidateEntries(ret.raw, cfg)
       IN  \E k1 \in 1..Len(cands), k2 \in 1..Len(cands) :
               /\ cands[k1].t = Old /\ cands[k1].cancelled
               /\ cands[k2].t = Old /\ ~cands[k2].cancelled
    /\ CountAt(ret.list, Old) = 1
    /\ ret.list[1].info.cancelled

----------------------------------------------------------------------------
(* C10: a cancelled departure older than the window *)

\* the slot's fresh entry is cancelled and older than the window
OldCancelledInSlot ==
    /\ FreshAttrs # None
    /\ FreshAttrs.cancelled
    /\ FreshEntry.t < now - RNV_DEPARTURE_VALID_MINUTES

\* C10 as stated: when a cancelled departure older than the window is the slot's
\* entry, the state is present, the attributes say cancelled with the localized
\* display, and available is true.
C10_OldCancelledShown ==
    OldCancelledInSlot
    => /\ (ret.op = "state" => ret.val = FreshEntry)
       /\ (ret.op = "attrs"
             => /\ ret.val.cancelled
                /\ ret.val.time_until_departure =
                       Str(IF cfg.language = "de" THEN "entfaellt" ELSE "cancelled"))
       /\ (ret.op = "available" => ret.available)

----------------------------------------------------------------------------
(* C11: platform and line filters *)

\* the configuration without its platform and line filters
Unfiltered(c) == [c EXCEPT !.platform = "", !.line = ""]

\* an entry of the list passes the platform and line filters of c
PassesFilters(e, c) ==
    /\ c.platform # "" => e.info.platform = Str(c.platform)
    /\ c.line # "" => e.info.label = Str(c.line)

\* C11: the list built with a platform and/or line filter is the list built without
\* them, restricted to the entries whose platform label and line label equal the
\* filters that are set (an entry without the label is dropped); without filters
\* nothing is dropped.
C11_Filters ==
    ret.op \in {"extract_departure", "extract_journey_info"}
    => LET all == JourneysInfo(ret.raw, Unfiltered(cfg), now)
           kept == SelectSeq(all, LAMBDA e : PassesFilters(e, cfg))
       IN  /\ Len(ret.list) = Len(kept)
           /\ \A i \in 1..Len(kept) : ret.list[i].t = kept[i].t
           /\ ret.op = "extract_journey_info" => ret.list = kept

\* a platform filter that dropped an entry of another platform and one without a
\* platform, and kept one
C11_Witness ==
    /\ ret.op = "extract_journey_info"
    /\ cfg.platform = "A"
    /\ Len(ret.list) >= 1
    /\ LET all == JourneysInfo(ret.raw, Unfiltered(cfg), now)
       IN  /\ \E i \in 1..Len(all) : all[i].info.platform = Str("B")
           /\ \E i \in 1..Len(all) : all[i].info.platform \in {None, Str("")}

----------------------------------------------------------------------------
(* C12: idempotence *)

\* C12: after an extraction has written the filtered stops back into the payload,
\* normalizing the payload again with the same clock and filters gives the list
\* the first normalization gave, for the state and for the attribute extraction.
C12_Idempotent ==
    ret.op \in {"extract_departure", "extract_journey_info"}
    => /\ Departures(data, cfg, now) = Departures(ret.raw, cfg, now)
       /\ JourneysInfo(data, cfg, now) = JourneysInfo(ret.raw, cfg, now)
       /\ ret.list = (IF ret.op = "extract_departure" THEN Departures(data, cfg, now)
                      ELSE JourneysInfo(data, cfg, now))

\* the extraction changed the payload and listed something
C12_Witness ==
    /\ ret.op = "extract_departure"
    /\ cfg.variant = "rnv"
    /\ data # ret.raw
    /\ Len(ret.list) >= 2

----------------------------------------------------------------------------
(* C13: faults of the HTTP client *)

\* C13 as stated: get and post return None, without raising, for a timeout and for a
\* 4xx/5xx response; an SSL error or a transport error leaves the call as an exception.
C13_ClientAbsentOnHttpFault ==
    ret.op \in {"get", "post"}
    => /\ (ret.outcome.k = "timeout" => ret.result = None)
       /\ (ret.outcome.k = "response" /\ ret.outcome.status >= 400 => ret.result = None)
       /\ (ret.outcome.k \in {"ssl", "connection"} => ret.result.k = "raise")

----------------------------------------------------------------------------
(* C14: absent or malformed coordinator data *)

\* the coordinator's data is absent, lacks the path to the entry list, or the entry
\* list is null
Malformed == ~PayloadParses \/ ExtractRaises(data, cfg)

\* C14 as stated: no read of state, attributes or availability ends in an exception,
\* and with absent or malformed data a read returns what the fallbacks give.
C14_MalformedIsAbsent ==
    /\ ret.op \notin {"state_raised", "attrs_raised", "available_raised"}
    /\ (Malformed /\ ret.op = "state" /\ last_valid_state = None /\ restored_state = None)
          => ret.val = None

----------------------------------------------------------------------------
(* C15: an unbroken run of transient faults *)

\* the last cycles failed since the slot's state was read after a successful one
UnderFaults == hist.phase \in {"fault1", "fault2"} /\ hist.fresh # Unread

\* the state the slot resolves to is absent or older than the window
Unavailable(d, c, lvs, rs, n) ==
    LET s == StateResolved(d, c, lvs, rs, n)
    IN  s = None \/ s.k # "iso" \/ s.t < n - RNV_DEPARTURE_VALID_MINUTES

\* C15 as stated: while cycles keep failing, a read of the state returns the departure
\* read after the last successful cycle, and once that departure is more than 5
\* minutes in the past the slot reports unavailable.
C15_Original ==
    [][UnderFaults =>
         /\ (ret'.op = "state" => ret'.val = hist.fresh)
         /\ ((ret'.op = "available" /\ hist.fresh.t < now - RNV_DEPARTURE_VALID_MINUTES)
             => ~ret'.available)]_vars

\* C15 amended: while cycles keep failing, a read of the state returns a departure of
\* the retained payload that is the one read after the last successful cycle or a
\* later one (the retained payload is normalized again at every read, so the slot
\* moves on when earlier entries leave the window); the slot reports unavailable
\* exactly when the departure it exposes is more than 5 minutes in the past; and once
\* the slot is unavailable it stays unavailable over every step that is not a
\* successful cycle.
C15_StaleUnderFaults ==
    [][UnderFaults =>
         /\ (ret'.op = "state" => ret'.val.k = "iso" /\ ret'.val.t >= hist.fresh.t)
         /\ (ret'.op = "available"
                => (ret'.available <=>
                      ~Unavailable(data, cfg, last_valid_state, restored_state, now)))
         /\ ((Unavailable(data, cfg, last_valid_state, restored_state, now)
                /\ ~(ret'.op = "cycle" /\ ret'.status = "ok"))
             => Unavailable(data', cfg', last_valid_state', restored_state', now'))]_vars

\* after a fault and with the clock advanced, the slot still exposes the departure
\* read after the last successful cycle, now older than the window, and reports
\* unavailable
C15_Witness ==
    /\ UnderFaults
    /\ hist.at < now
    /\ ret.op = "available"
    /\ ~ret.available
    /\ last_valid_state = hist.fresh
    /\ hist.fresh.t < now - RNV_DEPARTURE_VALID_MINUTES

----------------------------------------------------------------------------
(* C16: a fault of the token request *)

\* C16 as stated: once a cycle has failed at the token request, the slot reports
\* unavailable on every read, also with a last-valid value inside the window.
C16_Original ==
    [][(hist.auth /\ ret'.op = "available") => ~ret'.available]_vars

\* C16 amended: a cycle whose token request is rejected or unreachable fails like a
\* transient fault: it fetches nothing and leaves payload, credential and the slot's
\* cached values as they were; afterwards the slot is available exactly when the
\* state it resolves to is at most 5 minutes in the past; and the next cycle requests
\* a token again.
C16_AuthFaultIsTransient ==
    [][/\ ((ret'.op = "cycle" /\ now >= at_info.expires_on /\ ret'.calls[1].out # "dict")
          => /\ ret'.status = "UpdateFailed"
             /\ Len(ret'.calls) = 1
             /\ hist'.auth
             /\ UNCHANGED <<data, at_info, last_valid_state, last_valid_attributes>>)
       /\ ((hist.auth /\ ret'.op = "available")
          => (ret'.available <=>
                ~Unavailable(data, cfg, last_valid_state, restored_state, now)))
       /\ ((hist.auth /\ ret'.op = "cycle") => ret'.calls[1].req = "token")]_vars

\* after a failed token request the slot reports available from a last-valid value
\* inside the window
C16_Witness ==
    /\ hist.auth
    /\ ret.op = "available"
    /\ ret.available
    /\ last_valid_state # None
    /\ last_valid_state.t >= now - RNV_DEPARTURE_VALID_MINUTES

----------------------------------------------------------------------------
(* C17: attributes of an absent state *)

\* C17 as stated: when the slot's state resolves to absent, a read of the attributes
\* returns absent; the attributes of a restored snapshot older than the window are
\* not exposed.
C17_AbsentStateAbsentAttrs ==
    (ret.op = "attrs" /\ ResolvedState = None) => ret.val = None

----------------------------------------------------------------------------
(* C18: the restored snapshot *)

\* C18: restored_state and restored_attributes are written only by the step that adds
\* the entity, which happens once; no cycle, read, fault or tick changes them.
C18_RestoredWrittenOnce ==
    [][/\ (restored_state' # restored_state \/ restored_attributes' # restored_attributes)
          => (~added /\ added' /\ ret'.op = "added")
       /\ (added => /\ added'
                    /\ UNCHANGED <<restored_state, restored_attributes>>)]_vars

\* a read after a successful and a failed cycle, the restored snapshot still in place
C18_Witness ==
    /\ added
    /\ restored_state = Iso(RestoredTime)
    /\ restored_attributes = PersistedAttributes(RestoredTime)
    /\ hist.phase = "fault1"
    /\ hist.fresh # Unread
    /\ ret.op = "attrs"

----------------------------------------------------------------------------
(* C19: reads and the coordinator's payload *)

ReadStep == ret'.op \in {"state", "attrs", "available"}

\* the journeys of payload d
JourneysOf(d) == RnvElements(d).elements

\* C19 as stated: a read of state, attributes or availability leaves the
\* coordinator's payload as it was.
C19_ReadsLeavePayload ==
    [][ReadStep => data' = data]_vars

\* C19 amended: a read changes the coordinator's payload in one way only: in the
\* station/journeys schema every journey's stop list is replaced by its list without
\* the invalid and the filtered-out stops; journeys, lines and cancellation flags
\* stay, the lists normalized from the payload stay, a payload without such stops
\* stays identical, and a payload of the stop-times schema is never changed.
C19_ReadsOnlyDropFilteredStops ==
    [][ReadStep =>
         /\ (cfg.variant = "motis" \/ ~PayloadParses => data' = data)
         /\ (cfg.variant = "rnv" /\ PayloadParses
               => /\ Len(JourneysOf(data')) = Len(JourneysOf(data))
                  /\ \A i \in 1..Len(JourneysOf(data)) :
                        /\ JourneysOf(data')[i] =
                              [JourneysOf(data)[i] EXCEPT
                                  !.stops = GetDesiredStops(JourneysOf(data)[i], cfg)]
                        /\ (\A k \in 1..Len(JourneysOf(data)[i].stops) :
                               ~Contains(JourneysOf(data)[i].stops[k].dest, "$"))
                             => JourneysOf(data')[i] = JourneysOf(data)[i])
         /\ Departures(data', cfg, now) = Departures(data, cfg, now)
         /\ JourneysInfo(data', cfg, now) = JourneysInfo(data, cfg, now)]_vars

\* a read has dropped the invalid stop from the payload the cycle stored
C19_Witness ==
    /\ ret.op = "state"
    /\ data # RnvPayloadInvalidStop
    /\ data = RnvWriteBack(RnvPayloadInvalidStop, cfg)
    /\ Len(JourneysOf(data)[1].stops) = 1

----------------------------------------------------------------------------
(* C20: no entry is listed more often than the payload has it *)

\* the positions of the stops in the journeys of a payload
StopPositions(els) ==
    UNION {{<<i, k>> : k \in 1..Len(els[i].stops)} : i \in 1..Len(els)}

\* the stop of journey j is an entry of departure time t
RnvRawAt(j, s, t) ==
    LET ds == RnvDepStr([j |-> j, s |-> s])
    IN  Truthy(ds) /\ FromIsoFormat(ds).ok /\ FromIsoFormat(ds).t = t

\* the stop time is an entry of departure time t
MotisRawAt(stop, t) ==
    FromIsoFormat(MotisDepStr(stop)).ok /\ FromIsoFormat(MotisDepStr(stop)).t = t

\* how many entries of payload d have departure time t
RawCountAt(d, c, t) ==
    IF c.variant = "rnv"
    THEN LET els == RnvElements(d).elements
         IN  Cardinality({x \in StopPositions(els) :
                 RnvRawAt(els[x[1]], els[x[1]].stops[x[2]], t)})
    ELSE LET els == MotisElements(d).elements
         IN  Cardinality({i \in 1..Len(els) : MotisRawAt(els[i], t)})

\* how many entries of payload d have departure time, label and platform of key
RawCount(d, c, key) ==
    IF c.variant = "rnv"
    THEN LET els == RnvElements(d).elements
         IN  Cardinality({x \in StopPositions(els) :
                 /\ RnvRawAt(els[x[1]], els[x[1]].stops[x[2]], key.t)
                 /\ Get(els[x[1]].line) = key.label
                 /\ Get(els[x[1]].stops[x[2]].platform) = key.platform})
    ELSE LET els == MotisElements(d).elements
         IN  Cardinality({i \in 1..Len(els) :
                 /\ MotisRawAt(els[i], key.t)
                 /\ (IF els[i].displayName = Missing THEN Str("") ELSE els[i].displayName)
                       = key.label
                 /\ (IF els[i].track = Missing THEN Str("") ELSE els[i].track)
                       = key.platform})

\* departure time, label and platform of an entry of the normalized list
ListKey(e) == [t |-> e.t, label |-> e.info.label, platform |-> e.info.platform]
ListCount(list, key) == Cardinality({i \in 1..Len(list) : ListKey(list[i]) = key})

\* C20: the normalized list has no (departure time, label, platform) more often than
\* the payload has it, and no departure time more often than the payload; an entry
\* is listed twice only if the payload has it twice.
C20_NoInventedDuplicates ==
    /\ ret.op = "extract_journey_info"
         => \A i \in 1..Len(ret.list) :
                ListCount(ret.list, ListKey(ret.list[i]))
                    <= RawCount(ret.raw, cfg, ListKey(ret.list[i]))
    /\ ret.op = "extract_departure"
         => \A i \in 1..Len(ret.list) :
                CountAt(ret.list, ret.list[i].t) <= RawCountAt(ret.raw, cfg, ret.list[i].t)

\* two entries of the payload with the same time, label and platform, both listed
C20_Witness ==
    /\ ret.op = "extract_journey_info"
    /\ cfg.variant = "rnv"
    /\ Len(ret.list) >= 2
    /\ ListKey(ret.list[1]) = ListKey(ret.list[2])
    /\ RawCount(ret.raw, cfg, ListKey(ret.list[1])) = 2

----------------------------------------------------------------------------
(* C21: the queried time window *)

\* the hour of the day in the host's local time
HourLocal == (HourUtc(now) + cfg.utc_offset) % 24

\* C21 as stated: the queried window ends 5 hours after its start when the local time
\* of day is between midnight and 4 AM, and 2 hours after its start otherwise.
C21_WindowByLocalHour ==
    ret.op = "query"
    => ret.endTime - ret.startTime =
           (IF HourLocal < NightEndHour THEN NightWindowHours ELSE DayWindowHours) * 60

----------------------------------------------------------------------------
(* C22: cancellation in the station/journeys schema *)

\* how many stops of payload d have the time, label, platform and destination of
\* entry e and are cancelled (c) or not by flag or keyword
RawCountCancelled(d, e, c) ==
    LET els == RnvElements(d).elements
    IN  Cardinality({x \in StopPositions(els) :
            LET j == els[x[1]]
                s == j.stops[x[2]]
            IN  /\ RnvRawAt(j, s, e.t)
                /\ Get(j.line) = e.info.label
                /\ Get(s.platform) = e.info.platform
                /\ s.dest = e.info.destination
                /\ (j.cancelled \/ StripLower(s.dest) = Entfaellt) = c})

\* how many entries of the list are equal to entry e
ListCountEntry(list, e) == Cardinality({i \in 1..Len(list) : list[i] = e})

\* C22: an entry of the station/journeys schema is listed as cancelled exactly when
\* the flag of its journey is true or its destination label, trimmed and in lower
\* case, is the keyword; a keyword label makes it cancelled with a false flag, so
\* that without filters every stop with a keyword label and a time is listed.
C22_CancelledByFlagOrKeyword ==
    (ret.op = "extract_journey_info" /\ cfg.variant = "rnv")
    => \A i \in 1..Len(ret.list) :
           LET e == ret.list[i]
           IN  /\ (StripLower(e.info.destination) = Entfaellt => e.info.cancelled)
               /\ ListCountEntry(ret.list, e)
                     <= RawCountCancelled(ret.raw, e, e.info.cancelled)
       /\ (cfg.platform = "" /\ cfg.line = "" /\ cfg.dest_filter = <<>>
             => \A x \in StopPositions(JourneysOf(ret.raw)) :
                    LET j == JourneysOf(ret.raw)[x[1]]
                        s == j.stops[x[2]]
                    IN  \A t \in {Ahead, Boundary, Old} :
                            (RnvRawAt(j, s, t) /\ StripLower(s.dest) = Entfaellt)
                            => \E k \in 1..Len(ret.list) :
                                   /\ ret.list[k].t = t
                                   /\ ret.list[k].info.destination = s.dest
                                   /\ ret.list[k].info.cancelled)

\* an entry older than the window is listed as cancelled by its label alone
C22_Witness ==
    /\ ret.op = "extract_journey_info"
    /\ cfg.variant = "rnv"
    /\ \A j \in 1..Len(JourneysOf(ret.raw)) : ~JourneysOf(ret.raw)[j].cancelled
    /\ \E i \in 1..Len(ret.list) :
          /\ ret.list[i].info.cancelled
          /\ ret.list[i].info.destination = EntfaelltLabel
          /\ ret.list[i].t = Old

----------------------------------------------------------------------------
(* C23: the representative departure time *)

\* C23 as stated: no extraction raises; a listed entry's time is its realtime time
\* when it has one and its planned time otherwise; a stop without a realtime time is
\* listed by its planned time.
C23_RepresentativeTime ==
    /\ ret.op # "extract_raised"
    /\ ret.op = "extract_journey_info"
         => \A i \in 1..Len(ret.list) :
                LET e == ret.list[i]
                IN  e.t = (IF e.info.realtime_time.k = "iso" THEN e.info.realtime_time.t
                           ELSE e.info.planned_time.t)

----------------------------------------------------------------------------
(* C24: time_until_departure *)

\* the whole minutes from now to the departure
WholeMinutes == ret.diff \div 60

\* C24: a cancelled entry shows the localized cancelled string; otherwise, with N the
\* whole minutes to the departure, the entry shows the local clock time when
\* N >= 60, N minutes when 0 < N < 60, and the localized now string when N <= 0.
C24_UntilDisplay ==
    ret.op = "until"
    => ret.display =
         (IF ret.cancelled THEN Str(IF cfg.language = "de" THEN "entfaellt" ELSE "cancelled")
          ELSE IF WholeMinutes >= 60 THEN [k |-> "clock", t |-> ret.clock]
          ELSE IF WholeMinutes > 0 THEN [k |-> "min", n |-> WholeMinutes]
          ELSE Str(IF cfg.language = "de" THEN "sofort" ELSE "now"))

\* a departure 59 seconds short of the hour shows 59 minutes
C24_Witness ==
    /\ ret.op = "until"
    /\ ~ret.cancelled
    /\ ret.diff = 3599
    /\ ret.display = [k |-> "min", n |-> 59]

----------------------------------------------------------------------------
(* C25: the invalid marker and the destination filter *)

\* the pattern occurs somewhere in the label
OccursIn(pattern, label) ==
    \E from \in 1..Len(label), to \in 0..Len(label) :
        SubSeq(label, from, to) = pattern

\* the label has no marker and, if a destination filter is set, the filter occurs in it
LabelAllowed(label, c) ==
    /\ \A i \in 1..Len(label) : label[i] # "$"
    /\ c.dest_filter # <<>> => OccursIn(c.dest_filter, label)

\* the stops of payload d that the other rules admit: platform and line filter, a
\* time that parses, the window
OtherwiseListed(d, c, n) ==
    LET els == RnvElements(d).elements
    IN  {x \in StopPositions(els) :
            LET p == [j |-> els[x[1]], s |-> els[x[1]].stops[x[2]]]
            IN  /\ ~RnvFilterSkips(p, c)
                /\ Truthy(RnvDepStr(p))
                /\ FromIsoFormat(RnvDepStr(p)).ok
                /\ Admitted(FromIsoFormat(RnvDepStr(p)).t, RnvCancelled(p), n)}

\* C25: no listed entry has a destination label with the marker "$"; with a
\* destination filter every listed entry's label contains a match of the filter, and
\* a match anywhere suffices; the list has exactly the stops the other rules admit
\* whose label is allowed, so without a filter only the marker restricts labels.
C25_MarkerAndDestinationFilter ==
    (ret.op = "extract_journey_info" /\ cfg.variant = "rnv")
    => /\ \A i \in 1..Len(ret.list) : LabelAllowed(ret.list[i].info.destination, cfg)
       /\ Len(ret.list) =
            Cardinality({x \in OtherwiseListed(ret.raw, cfg, now) :
                LabelAllowed(JourneysOf(ret.raw)[x[1]].stops[x[2]].dest, cfg)})

\* with the filter "b" a stop to Hbf is listed, a stop to Uni and a marked stop that
\* the other rules admit are not
C25_Witness ==
    /\ ret.op = "extract_journey_info"
    /\ cfg.variant = "rnv"
    /\ cfg.dest_filter = <<"b">>
    /\ \E i \in 1..Len(ret.list) : ret.list[i].info.destination = Hbf
    /\ \E x \in OtherwiseListed(ret.raw, cfg, now) :
          JourneysOf(ret.raw)[x[1]].stops[x[2]].dest = Uni
    /\ \E x \in OtherwiseListed(ret.raw, cfg, now) :
          JourneysOf(ret.raw)[x[1]].stops[x[2]].dest = Marked

----------------------------------------------------------------------------
(* C26: a cancelled entry is ordered by its own timestamp *)

\* the departure times of the slots: the cancelled entry first
SlotTimes == <<StartNow - 10, StartNow + 2, StartNow + 5>>

\* C26: with a cancelled entry at T-10 and entries at T+2, T+5 and T+8, in whatever
\* order the payload has them, slot 0 is the cancelled entry, slot 1 is T+2 and
\* slot 2 is T+5, for the state and for the attributes.
C26_CancelledOrderedByTime ==
    /\ ret.op = "state" => ret.val = Iso(SlotTimes[cfg.index + 1])
    /\ ret.op = "attrs"
         => /\ ret.val.realtime_time = Iso(SlotTimes[cfg.index + 1])
            /\ ret.val.cancelled = (cfg.index = 0)

\* the payload reports the cancelled entry last and slot 0 shows it
C26_Witness ==
    /\ ret.op = "attrs"
    /\ cfg.variant = "rnv"
    /\ cfg.index = 0
    /\ JourneysOf(data)[4].cancelled
    /\ ret.val.cancelled
    /\ ret.val.realtime_time = Iso(StartNow - 10)

----------------------------------------------------------------------------
(* C27: the cached last-valid state has no age limit *)

\* C27: a read that finds no entry for the slot returns the cached last-valid state
\* whatever its age and keeps it; available is then false once the cached departure
\* is more than 5 minutes in the past; the cached state changes only in a read that
\* finds an entry, to that entry, and is never cleared.
C27_LastValidNeverExpires ==
    [][/\ ((ret'.op = "state" /\ FreshEntry = None /\ last_valid_state # None)
          => ret'.val = last_valid_state)
       /\ ((/\ ret'.op = "available" /\ FreshEntry = None /\ last_valid_state # None
            /\ last_valid_state.t < now - RNV_DEPARTURE_VALID_MINUTES)
          => ~ret'.available)
       /\ (last_valid_state' # last_valid_state
          => /\ ret'.op \in {"state", "available"}
             /\ FreshEntry # None
             /\ last_valid_state' = FreshEntry)
       /\ (last_valid_state # None => last_valid_state' # None)]_vars

\* the state read is the cached departure, now older than the window
C27_Witness ==
    /\ ret.op = "state"
    /\ FreshEntry = None
    /\ ret.val # None
    /\ ret.val = last_valid_state
    /\ ret.val.t < now - RNV_DEPARTURE_VALID_MINUTES

----------------------------------------------------------------------------
(* C28: no retry inside a cycle *)

\* how many requests of kind req the cycle issued
Requests(req) == Cardinality({i \in 1..Len(ret.calls) : ret.calls[i].req = req})

\* C28: a cycle issues at most one token request, first, and at most one fetch per
\* source, the VRN fetch only in a combined cycle; a token request that fails is the
\* cycle's only request, and a failed fetch is not repeated.
C28_NoRetry ==
    ret.op = "cycle"
    => /\ Requests("token") <= 1
       /\ Requests("rnv") <= 1
       /\ Requests("vrn") <= (IF cfg.use_vrn THEN 1 ELSE 0)
       /\ Len(ret.calls) = Requests("token") + Requests("rnv") + Requests("vrn")
       /\ (Requests("token") = 1 => ret.calls[1].req = "token")
       /\ ((ret.calls[1].req = "token" /\ ret.calls[1].out # "dict") => Len(ret.calls) = 1)

\* a cycle that obtained a token and whose fetch raised: two requests, then failure
C28_Witness ==
    /\ ret.op = "cycle"
    /\ ret.status = "UpdateFailed"
    /\ ret.calls = <<[req |-> "token", out |-> "dict"], [req |-> "rnv", out |-> "raise"]>>

----------------------------------------------------------------------------
(* Platform setup: async_setup_entry of either integration *)

\* the sensor classes of a station; the class of position i reads index i - 1 in its
\* state and extra_state_attributes properties
SensorClasses == <<"next", "second", "third">>
ClassIndex(cls) == (CHOOSE i \in 1..3 : SensorClasses[i] = cls) - 1

\* one item of entry.options["stations"], its optional keys defaulted as station.get does
Station(id, platform, line, dest_filter) ==
    [id |-> id, platform |-> platform, line |-> line, dest_filter |-> dest_filter]

StationKinds(id) ==
    {Station(id, "", "", <<>>), Station(id, "A", "", <<"b">>),
     Station(id, "", "5", <<>>), Station(id, "A", "5", <<"b">>)}

StationLists ==
    {<<>>} \cup {<<s>> : s \in StationKinds(1)}
    \cup {<<s, t>> : s \in StationKinds(1), t \in StationKinds(2)}

\* a config entry: the stations of its options and of its data
Entries ==
    {[options |-> o, data |-> d] :
        o \in StationLists, d \in {<<>>, <<Station(1, "A", "5", <<>>)>>}}

\* entry.options["stations"] as the setup reads it, after the migration from entry.data
ConfiguredStations(entry) ==
    IF entry.options = <<>> /\ entry.data # <<>> THEN entry.data ELSE entry.options

\* the sensors appended for one station; k is the coordinator built for that station.
\* The stop-times sensors take no destination filter.
StationSensorsNoThird(variant, language, station, k) ==
    [i \in 1..2 |->
        [variant |-> variant, cls |-> SensorClasses[i], index |-> i - 1,
         use_vrn |-> FALSE, language |-> language, station_id |-> station.id,
         platform |-> station.platform, line |-> station.line,
         dest_filter |-> IF variant = "rnv" THEN station.dest_filter ELSE <<>>,
         coordinator |-> k]]
StationSensors(variant, language, station, k) ==
    [i \in 1..3 |->
        [variant |-> variant, cls |-> SensorClasses[i], index |-> i - 1,
         use_vrn |-> FALSE, language |-> language, station_id |-> station.id,
         platform |-> station.platform, line |-> station.line,
         dest_filter |-> IF variant = "rnv" THEN station.dest_filter ELSE <<>>,
         coordinator |-> k]]

\* the entities list after the loop over the stations from position k on
RECURSIVE SetupEntities(_, _, _, _)
SetupEntities(variant, language, stations, k) ==
    IF k > Len(stations) THEN <<>>
    ELSE StationSensors(variant, language, stations[k], k)
         \o SetupEntities(variant, language, stations, k + 1)

\* a config entry of either integration waits for its platform setup; no refresh has
\* run and no entity exists
InitSetup ==
    /\ now = StartNow
    /\ \E v \in {"rnv", "motis"}, e \in Entries :
          cfg = [variant |-> v, language |-> IF v = "rnv" THEN "de" ELSE "en", entry |-> e]
    /\ data = None
    /\ at_info = [access_token |-> Str("t0"), expires_on |-> MaxNow + 1]
    /\ last_valid_state = None
    /\ last_valid_attributes = None
    /\ restored_state = None
    /\ restored_attributes = None
    /\ added = FALSE
    /\ hist = [phase |-> "none", fresh |-> Unread, at |-> 0, auth |-> FALSE]
    /\ ret = [op |-> "init"]

\* async_setup_entry: the entities handed to async_add_entities; the host adds them,
\* none with a stored state, and cfg becomes the one of them that is followed
AsyncSetupEntry ==
    /\ ret.op = "init"
    /\ LET stations == ConfiguredStations(cfg.entry)
           entities == SetupEntities(cfg.variant, cfg.language, stations, 1)
       IN  /\ ret' = [op |-> "setup", stations |-> stations, entities |-> entities]
           /\ IF entities = <<>> THEN UNCHANGED <<cfg, added>>
              ELSE /\ \E i \in 1..Len(entities) : cfg' = entities[i]
                   /\ added' = TRUE
    /\ UNCHANGED <<now, data, at_info, last_valid_state, last_valid_attributes,
                   restored_state, restored_attributes, hist>>

NextSetup ==
    \/ AsyncSetupEntry
    \/ RnvCycle
    \/ MotisCycle
    \/ ReadState
    \/ ReadAttrs

SpecSetup == InitSetup /\ [][NextSetup]_vars

----------------------------------------------------------------------------
(* C29: three sensors per station *)

\* the sensor created for slot i of the k-th configured station
EntityOf(entities, k, i) == entities[3 * (k - 1) + i + 1]

\* C29: setup creates, for every configured station, exactly three sensors with slot
\* indices 0, 1 and 2 that share one coordinator and the station's filters; the
\* sensor of slot i exposes element i of the normalized list when it exists and
\* otherwise what the cache holds.
C29_ThreeSensorsPerStation ==
    [][/\ ret'.op = "setup" =>
             /\ Len(ret'.entities) = 3 * Len(ret'.stations)
             /\ \A k \in 1..Len(ret'.stations), i \in 0..2 :
                   LET e == EntityOf(ret'.entities, k, i)
                       station == ret'.stations[k]
                   IN  /\ e.index = i
                       /\ ClassIndex(e.cls) = i
                       /\ e.coordinator = k
                       /\ e.station_id = station.id
                       /\ e.platform = station.platform
                       /\ e.line = station.line
                       /\ (e.variant = "rnv") => (e.dest_filter = station.dest_filter)
       /\ ret'.op = "state" =>
             LET l == Departures(data, cfg, now)
             IN  ret'.val = IF cfg.index < Len(l) THEN Iso(l[cfg.index + 1].t)
                            ELSE last_valid_state
       /\ ret'.op = "attrs" =>
             LET l == JourneysInfo(data, cfg, now)
             IN  ret'.val = IF cfg.index < Len(l) THEN l[cfg.index + 1].info
                            ELSE last_valid_attributes]_vars

\* the third sensor of the second station, set up with the station's filters, shows
\* the third entry of the list
C29_Witness ==
    /\ ret.op = "state"
    /\ cfg.coordinator = 2
    /\ cfg.index = 2
    /\ cfg.dest_filter # <<>>
    /\ Len(Departures(data, cfg, now)) >= 3
    /\ ret.val = Iso(Departures(data, cfg, now)[3].t)

----------------------------------------------------------------------------
(* Station directory: StationDataHelper._load_data *)

\* the coroutines that access the station data on the event loop
Tasks == 1..2

\* how many accesses each coroutine makes in a run
MaxAccesses == 2

\* _get_stops_file_path: the same path on every call
StopsFile == Str("data/stations.json")

\* what _load_data_sync does in the executor: the parsed file, or it raises
StationsJson == Dict([stations |-> List(<<[id |-> Str("1"), name |-> Hbf]>>)])
FileOutcomes == {Raise, StationsJson}

\* the class attributes _data_cache and _cache_file_path
ClassState(cache, path) == [_data_cache |-> cache, _cache_file_path |-> path]

\* the test at the head of _load_data
CacheUsable(cls) == cls._data_cache # None /\ cls._cache_file_path = StopsFile

\* the process has started; no coroutine has accessed the station data. hist holds
\* each coroutine's position in _load_data (idle: not in it; loading: its executor job
\* is submitted; read: its job has finished), the outcome of its job, the accesses it
\* has made, and how often the file has been read and read successfully.
InitStations ==
    /\ now = StartNow
    /\ cfg = NoFilters("rnv", 0, FALSE, "de")
    /\ data = ClassState(None, None)
    /\ at_info = [access_token |-> Str("t0"), expires_on |-> MaxNow + 1]
    /\ last_valid_state = None
    /\ last_valid_attributes = None
    /\ restored_state = None
    /\ restored_attributes = None
    /\ added = FALSE
    /\ hist = [pc |-> [t \in Tasks |-> "idle"], job |-> [t \in Tasks |-> None],
               accesses |-> [t \in Tasks |-> 0], reads |-> 0, loaded |-> 0]
    /\ ret = [op |-> "init"]

\* _load_data up to its await: return the cache, or submit _load_data_sync to the
\* executor and suspend
LoadDataEnter(t) ==
    /\ hist.pc[t] = "idle"
    /\ hist.accesses[t] < MaxAccesses
    /\ IF CacheUsable(data)
       THEN /\ ret' = [op |-> "load_data", task |-> t, cached |-> TRUE,
                       result |-> data._data_cache]
            /\ hist' = [hist EXCEPT !.accesses[t] = @ + 1]
       ELSE /\ ret' = [op |-> "submit", task |-> t]
            /\ hist' = [hist EXCEPT !.accesses[t] = @ + 1, !.pc[t] = "loading"]
    /\ UNCHANGED <<now, cfg, data, at_info, last_valid_state, last_valid_attributes,
                   restored_state, restored_attributes, added>>

\* _load_data_sync runs in the executor: the file is opened and parsed
LoadDataSync(t) ==
    /\ hist.pc[t] = "loading"
    /\ \E o \in FileOutcomes :
          /\ hist' = [hist EXCEPT !.pc[t] = "read", !.job[t] = o, !.reads = @ + 1,
                                  !.loaded = IF o = Raise THEN @ ELSE @ + 1]
          /\ ret' = [op |-> "read_file", task |-> t, outcome |-> o]
    /\ UNCHANGED <<now, cfg, data, at_info, last_valid_state, last_valid_attributes,
                   restored_state, restored_attributes, added>>

\* _load_data after its await: the job's exception propagates, or its result is
\* stored in the class attributes and returned
LoadDataResume(t) ==
    /\ hist.pc[t] = "read"
    /\ IF hist.job[t] = Raise
       THEN /\ ret' = [op |-> "load_data_raised", task |-> t]
            /\ data' = data
       ELSE /\ data' = ClassState(hist.job[t].v, StopsFile)
            /\ ret' = [op |-> "load_data", task |-> t, cached |-> FALSE,
                       result |-> hist.job[t].v]
    /\ hist' = [hist EXCEPT !.pc[t] = "idle", !.job[t] = None]
    /\ UNCHANGED <<now, cfg, at_info, last_valid_state, last_valid_attributes,
                   restored_state, restored_attributes, added>>

NextStations ==
    \/ \E t \in Tasks : LoadDataEnter(t)
    \/ \E t \in Tasks : LoadDataSync(t)
    \/ \E t \in Tasks : LoadDataResume(t)

SpecStations == InitStations /\ [][NextStations]_vars

----------------------------------------------------------------------------
(* C30: the station file is loaded once *)

\* the coroutines whose load is under way
Loading == {t \in Tasks : hist.pc[t] \in {"loading", "read"}}

\* C30: the station file is loaded at most once per process: at most one load is
\* under way at a time, the file is read successfully at most once, and once a read
\* has succeeded no access reads the file again.
C30_LoadedAtMostOnce ==
    [][/\ Cardinality(Loading') <= 1
       /\ hist'.loaded <= 1
       /\ (hist.loaded >= 1) => (hist'.reads = hist.reads)]_vars

----------------------------------------------------------------------------
(* C31: the credential changes only by a successful token request *)

\* the step is a cycle that issued a token request
TokenRequested == ret'.op = "cycle" /\ \E i \in 1..Len(ret'.calls) : ret'.calls[i].req = "token"

\* C31: a token request is issued only in a cycle that starts at or after expires_on;
\* a response with an access_token replaces the credential; a request that fails or
\* a response without access_token leaves the credential as it was, and so does every
\* step without a token request.
C31_CredentialFrame ==
    [][/\ TokenRequested => now >= at_info.expires_on
       /\ (TokenRequested /\ ret'.calls[1].out = "dict") =>
             /\ at_info'.access_token = Str("t1")
             /\ at_info'.expires_on = now + TokenLifetime
       /\ (TokenRequested /\ ret'.calls[1].out # "dict") => at_info' = at_info
       /\ ~TokenRequested => at_info' = at_info]_vars

\* a cycle whose token request succeeded and replaced the credential
C31_Witness ==
    /\ ret.op = "cycle"
    /\ ret.calls[1] = [req |-> "token", out |-> "dict"]
    /\ at_info = [access_token |-> Str("t1"), expires_on |-> now + TokenLifetime]

----------------------------------------------------------------------------
(* C32: the cached state is never reset *)

\* C32: once last_valid_state is set no step resets it to absent, and every read of
\* the state that returns from then on returns the fresh entry or the cached one:
\* never absent, never the restored snapshot.
C32_LastValidNeverReset ==
    [][(last_valid_state # None) =>
          /\ last_valid_state' # None
          /\ ret'.op = "state" =>
                /\ ret'.val # None
                /\ ret'.val = IF FreshEntry # None THEN FreshEntry ELSE last_valid_state]_vars

\* after a restart with a recent snapshot and a fresh entry since, a cycle without an
\* entry for the slot: the read returns the cached entry, not the snapshot
C32_Witness ==
    /\ ret.op = "state"
    /\ restored_state = Iso(RestoredTime)
    /\ RestoredTime >= now - RNV_DEPARTURE_VALID_MINUTES
    /\ FreshEntry = None
    /\ ret.val = last_valid_state
    /\ ret.val # restored_state

----------------------------------------------------------------------------
(* C33: the cached state and the cached attributes *)

\* the departure time the attributes describe: realtime_time or planned_time
AttrsTime(a) == IF Truthy(a.realtime_time) THEN a.realtime_time ELSE a.planned_time

\* C33: after any interleaving of cycles, clock advances and reads of available, state
\* and attributes, the departure time of the cached attributes equals the cached state.
C33_StateAndAttrsAgree ==
    (last_valid_state # None /\ last_valid_attributes # None)
        => AttrsTime(last_valid_attributes) = last_valid_state

----------------------------------------------------------------------------
(* Options flow: RnvOptionsFlowHandler / MotisOptionsFlowHandler, and what the
   entities of the persisted stations are registered as *)

\* how many stations the working list of a flow may hold
MaxStations == 2

\* what the user can submit in the add step of either flow
RnvStationInputs ==
    {[id |-> i, platform |-> p, line |-> l] : i \in {"1", "2"}, p \in {"", "5"}, l \in {"", "5"}}
MotisStationInputs ==
    {[id |-> i, name |-> "N" \o i, platform |-> p, line |-> "", radius |-> r] :
        i \in {"1", "2"}, p \in {"", "5"}, r \in {"50", "100"}}
StationInputs(variant) == IF variant = "rnv" THEN RnvStationInputs ELSE MotisStationInputs

\* the test of the "Prevent duplicates" loop for one entry of self.stations
SameStationNever(variant, s, new_station) == FALSE
SameStation(variant, s, new_station) ==
    /\ s.id = new_station.id
    /\ s.platform = new_station.platform
    /\ s.line = new_station.line
    /\ (variant = "motis") => (s.radius = new_station.radius)

IsDuplicate(variant, stations, new_station) ==
    \E k \in 1..Len(stations) : SameStation(variant, stations[k], new_station)

\* the first 8 hex digits of the SHA-256 digest of the filter: not computed, a
\* different text for each filter of the model
Sha256Hex8(s) == "sha(" \o s \o ")"

\* RNVBaseSensor._unique_base_id
RnvUniqueBaseId(station_id, platform, line, destinationLabel_filter) ==
    "rnv_" \o station_id
    \o (IF platform # "" THEN "_" \o platform ELSE "")
    \o (IF line # "" THEN "_" \o line ELSE "")
    \o (IF destinationLabel_filter # ""
        THEN "_filter" \o Sha256Hex8(destinationLabel_filter) ELSE "")

\* MotisBaseSensor.unique_id
MotisUniqueBaseId(station_id, station_name, platform, line) ==
    "motis_" \o station_name
    \o (IF platform # "" THEN "_" \o platform ELSE "")
    \o (IF line # "" THEN "_" \o line ELSE "")
    \o "_" \o station_id

\* the unique_id property of the sensor class cls built for a station of the options
UniqueId(variant, station, cls) ==
    (IF variant = "rnv"
     THEN RnvUniqueBaseId(station.id, station.platform, station.line, "")
     ELSE MotisUniqueBaseId(station.id, station.name, station.platform, station.line))
    \o "_" \o cls

\* the unique IDs of the entities async_setup_entry builds, in order
UniqueIds(variant, stations) ==
    [n \in 1..(3 * Len(stations)) |->
        UniqueId(variant, stations[((n - 1) \div 3) + 1], SensorClasses[((n - 1) % 3) + 1])]

\* the identifier in device_info of the sensors of a station
DeviceIdentifier(variant, station) ==
    IF variant = "rnv" THEN <<station.id, station.platform, station.line>>
    ELSE <<station.id, station.platform, station.line, station.radius>>

DevicesOf(variant, stations) ==
    {DeviceIdentifier(variant, stations[k]) : k \in 1..Len(stations)}

\* the list without its element at position k
Pop(stations, k) == [n \in 1..(Len(stations) - 1) |-> IF n < k THEN stations[n] ELSE stations[n + 1]]

\* _remove_devices_for_station: the devices of the entry left in the registry, and
\* whether the loop raises. The RNV flow iterates over a copy of the registry; the
\* stop-times flow iterates over the registry itself, so the iteration step after
\* the first removal raises RuntimeError; which matching device comes first is the
\* registry's order.
RemoveDevicesForStation(variant, devices, station_id) ==
    LET matching == {d \in devices : d[1] = station_id}
    IN  IF variant = "rnv" \/ matching = {}
        THEN {[devices |-> devices \ matching, raised |-> FALSE]}
        ELSE {[devices |-> devices \ {d}, raised |-> TRUE] : d \in matching}

\* the stations an entry holds when its options flow is opened: none, one, or two
\* configurations of station 1
StoredStations(variant) ==
    {<<>>} \cup {<<s>> : s \in StationInputs(variant)}
    \cup {p \in {x \in StationInputs(variant) : x.id = "1"}
                  \X {x \in StationInputs(variant) : x.id = "1"} : p[1] # p[2]}

\* a config entry that is set up, and its options flow opened: data is the host's
\* side (the entry's options and the device registry), hist the flow handler
\* (self.stations)
InitOptions ==
    /\ now = StartNow
    /\ \E v \in {"rnv", "motis"} :
         /\ cfg = [variant |-> v]
         /\ \E o \in StoredStations(v) :
              /\ data = [options |-> o, devices |-> DevicesOf(v, o)]
              /\ hist = [stations |-> o, open |-> TRUE]
    /\ at_info = [access_token |-> Str("t0"), expires_on |-> MaxNow + 1]
    /\ last_valid_state = None
    /\ last_valid_attributes = None
    /\ restored_state = None
    /\ restored_attributes = None
    /\ added = FALSE
    /\ ret = [op |-> "init"]

\* async_step_add_station / async_step_select_station with user input
StepAddStation ==
    /\ hist.open
    /\ Len(hist.stations) < MaxStations
    /\ \E new_station \in StationInputs(cfg.variant) :
         IF IsDuplicate(cfg.variant, hist.stations, new_station)
         THEN /\ ret' = [op |-> "form", input |-> new_station, errors |-> "duplicate_station"]
              /\ hist' = hist
         ELSE /\ ret' = [op |-> "menu", input |-> new_station]
              /\ hist' = [hist EXCEPT !.stations = Append(@, new_station)]
    /\ UNCHANGED <<now, cfg, data, at_info, last_valid_state, last_valid_attributes,
                   restored_state, restored_attributes, added>>

\* async_step_remove_station with user input: the devices are removed from the
\* registry, then the station is popped from self.stations
StepRemoveStation ==
    /\ hist.open
    /\ hist.stations # <<>>
    /\ \E k \in 1..Len(hist.stations) :
         \E r \in RemoveDevicesForStation(cfg.variant, data.devices, hist.stations[k].id) :
            /\ data' = [data EXCEPT !.devices = r.devices]
            /\ IF r.raised
               THEN /\ ret' = [op |-> "remove_raised", removed |-> hist.stations[k],
                               exc |-> Str("RuntimeError")]
                    /\ hist' = hist
               ELSE /\ ret' = [op |-> "removed", removed |-> hist.stations[k]]
                    /\ hist' = [hist EXCEPT !.stations = Pop(@, k)]
    /\ UNCHANGED <<now, cfg, at_info, last_valid_state, last_valid_attributes,
                   restored_state, restored_attributes, added>>

\* the menu's finish action: async_create_entry persists self.stations as the
\* entry's options; the update listener reloads the entry, whose setup builds the
\* entities of every station and registers their devices
StepFinish ==
    /\ hist.open
    /\ data' = [options |-> hist.stations,
                devices |-> data.devices \cup DevicesOf(cfg.variant, hist.stations)]
    /\ hist' = [hist EXCEPT !.open = FALSE]
    /\ ret' = [op |-> "create_entry", stations |-> hist.stations,
               unique_ids |-> UniqueIds(cfg.variant, hist.stations)]
    /\ UNCHANGED <<now, cfg, at_info, last_valid_state, last_valid_attributes,
                   restored_state, restored_attributes, added>>

NextOptions ==
    \/ StepAddStation
    \/ StepRemoveStation
    \/ StepFinish

SpecOptions == InitOptions /\ [][NextOptions]_vars

----------------------------------------------------------------------------
(* C34: unique IDs of the sensors of an accepted station list *)

\* C34: any two different sensors created from a station list the options flow
\* accepted have different unique IDs.
C34_UniqueIdsDistinct ==
    (ret.op = "create_entry") =>
        \A m, n \in 1..Len(ret.unique_ids) : (m # n) => (ret.unique_ids[m] # ret.unique_ids[n])

----------------------------------------------------------------------------
(* C35: the working station list stays duplicate-free *)

\* what makes two station configurations the same: id, platform and line, and the
\* radius in the stop-times variant
StationKey(variant, s) ==
    IF variant = "rnv" THEN <<s.id, s.platform, s.line>>
    ELSE <<s.id, s.platform, s.line, s.radius>>

NoTwoSame(variant, stations) ==
    \A j, k \in 1..Len(stations) :
        (j # k) => (StationKey(variant, stations[j]) # StationKey(variant, stations[k]))

HasKey(variant, stations, s) ==
    \E k \in 1..Len(stations) : StationKey(variant, stations[k]) = StationKey(variant, s)

\* C35: after any sequence of add and remove steps the working list holds no two
\* entries with the same (id, platform, line) (and radius in the stop-times variant);
\* an add that duplicates an entry reports duplicate_station and leaves the list
\* unchanged, any other add appends its station; the entry's options change only by
\* the finish action, which stores the working list.
C35_NoDuplicateStations ==
    [][/\ NoTwoSame(cfg.variant, hist'.stations)
       /\ (ret'.op \in {"form", "menu"}) =>
             IF HasKey(cfg.variant, hist.stations, ret'.input)
             THEN /\ ret'.op = "form"
                  /\ ret'.errors = "duplicate_station"
                  /\ hist'.stations = hist.stations
             ELSE /\ ret'.op = "menu"
                  /\ hist'.stations = Append(hist.stations, ret'.input)
       /\ (data'.options # data.options) =>
             (ret'.op = "create_entry" /\ data'.options = hist.stations)]_vars

\* a station was added and not yet persisted; adding it again is refused
C35_Witness ==
    /\ ret.op = "form"
    /\ ret.errors = "duplicate_station"
    /\ HasKey(cfg.variant, hist.stations, ret.input)
    /\ data.options # hist.stations

----------------------------------------------------------------------------
(* C36: removing a station configuration and the device registry *)

\* the devices a step took out of the registry
DevicesGone == data.devices \ data'.devices

\* C36: removing one station configuration removes the devices of that configuration
\* only: the devices of the configurations that remain in the list stay registered,
\* and no device leaves the registry except by the finish action.
C36_RemovesOwnDevicesOnly ==
    [][/\ (ret'.op \in {"removed", "remove_raised"}) =>
             /\ DevicesGone \subseteq {StationKey(cfg.variant, ret'.removed)}
             /\ \A k \in 1..Len(hist'.stations) :
                   LET d == StationKey(cfg.variant, hist'.stations[k])
                   IN  (d \in data.devices) => (d \in data'.devices)
       /\ (DevicesGone # {}) => (ret'.op = "create_entry")]_vars

----------------------------------------------------------------------------
(* Stop-times config flow: sanitize_credential, normalize_url, async_step_user *)

\* s.startswith(prefix)
StartsWith(s, prefix) == Len(s) >= Len(prefix) /\ SubSeq(s, 1, Len(prefix)) = prefix

\* s.lower()
LowerSeq(s) == [i \in 1..Len(s) |-> Lower(s[i])]

\* s.rstrip("/")
RECURSIVE RStripSlash(_)
RStripSlash(s) ==
    IF s # <<>> /\ s[Len(s)] = "/" THEN RStripSlash(SubSeq(s, 1, Len(s) - 1)) ELSE s

Http == <<"h", "t", "t", "p", ":", "/", "/">>
Https == <<"h", "t", "t", "p", "s", ":", "/", "/">>
CLIENT_API_URL == <<"h", "t", "t", "p", "s", ":", "/", "/", "a", "p", "i", ".", "t", "r", "a", "n", "s", "i", "t", "o", "u", "s", ".", "o", "r", "g", "/", "a", "p", "i">>

\* MotisHub.normalize_url
NormalizeUrl(url) ==
    IF url = <<>> THEN CLIENT_API_URL
    ELSE LET stripped == RStripSlash(url)
         IN  IF ~StartsWith(stripped, Http) /\ ~StartsWith(stripped, Https)
             THEN Https \o stripped
             ELSE stripped

\* prefixes_by_field.get(field, ())
PrefixesByField(field) == IF field = "url" THEN {<<"u", "r", "l", "=">>} ELSE {}

\* sanitize_credential: the cleaned value, or InvalidCredentialFormat
SanitizeCredentialAnyPrefix(field, value) ==
    LET cleaned == RStrip(LStrip(value))
    IN  IF cleaned = <<>> \/ cleaned # value THEN Raised("InvalidCredentialFormat")
        ELSE [k |-> "ok", v |-> cleaned]
SanitizeCredential(field, value) ==
    LET cleaned == RStrip(LStrip(value))
    IN  IF cleaned = <<>> \/ cleaned # value THEN Raised("InvalidCredentialFormat")
        ELSE IF \E prefix \in PrefixesByField(field) :
                    StartsWith(LowerSeq(cleaned), LowerSeq(prefix))
        THEN Raised("InvalidCredentialFormat")
        ELSE [k |-> "ok", v |-> cleaned]

\* MotisHub.authenticate, given what the reverse-geocode request did: whether the
\* instance was reached, or the exception that propagates (the client raises none
\* that is a HomeAssistantError)
Authenticate(res) ==
    IF res = None THEN [k |-> "bool", v |-> FALSE]
    ELSE IF res.k = "dict" THEN [k |-> "bool", v |-> TRUE]
    ELSE res

\* the texts a user may submit as URL
SubmittedUrls ==
    LET leads == {<<>>, <<" ">>}
        prefixes == {<<>>, <<"u", "r", "l", "=">>, <<"U", "R", "L", "=">>,
                     <<"U", "r", "l", "=">>, <<"u", "r", "l">>}
        bodies == {<<>>, <<"h">>, <<"h", " ", "x">>, Https \o <<"h">>}
        trails == {<<>>, <<" ">>, <<"/">>}
    IN  {l \o p \o b \o t : l \in leads, p \in prefixes, b \in bodies, t \in trails}

\* the arguments normalize_url is tried on
Urls ==
    LET schemes == {<<>>, Http, Https, <<"h", "t", "t", "p", ":", "/">>, <<"h">>}
        hosts == {<<>>, <<"a">>, <<"a", "/", "b">>, <<"/", "a">>}
        slashes == {<<>>, <<"/">>, <<"/", "/">>}
    IN  {s \o h \o t : s \in schemes, h \in hosts, t \in slashes}

\* what the HTTP request of the backend check may do
BackendOutcomes ==
    {[k |-> "timeout"], [k |-> "response", status |-> 500, body |-> None],
     [k |-> "response", status |-> 200, body |-> None],
     [k |-> "response", status |-> 200, body |-> [data |-> None]]}

\* the config flow is shown; no entry exists (data is the entry's data once created)
InitConfig ==
    /\ now = StartNow
    /\ cfg = [variant |-> "motis"]
    /\ data = None
    /\ at_info = [access_token |-> Str("t0"), expires_on |-> MaxNow + 1]
    /\ last_valid_state = None
    /\ last_valid_attributes = None
    /\ restored_state = None
    /\ restored_attributes = None
    /\ added = FALSE
    /\ hist = [phase |-> "none", fresh |-> Unread, at |-> 0, auth |-> FALSE]
    /\ ret = [op |-> "init"]

\* ConfigFlow.async_step_user with user_input = {"url": url}; o is what the HTTP
\* request of the backend check does if it is made; the flow ends with the entry
StepUser ==
    /\ ret.op # "create_entry"
    /\ \E url \in SubmittedUrls, o \in BackendOutcomes :
         LET s == SanitizeCredential("url", url) IN
         IF s.k # "ok"
         THEN /\ ret' = [op |-> "form", input |-> url, errors |-> [url |-> "invalid_format"],
                         contacted |-> <<>>]
              /\ data' = data
         ELSE LET hub_url == NormalizeUrl(s.v)
                  valid_config == Authenticate(DoGet(o))
              IN  IF valid_config.k = "bool" /\ valid_config.v
                  THEN /\ ret' = [op |-> "create_entry", input |-> url,
                                  contacted |-> <<[url |-> hub_url, outcome |-> o]>>]
                       /\ data' = [url |-> s.v]
                  ELSE /\ ret' = [op |-> "form", input |-> url,
                                  errors |-> [base |-> IF valid_config.k = "bool"
                                                       THEN "invalid_auth" ELSE "unknown"],
                                  contacted |-> <<[url |-> hub_url, outcome |-> o]>>]
                       /\ data' = data
    /\ UNCHANGED <<now, cfg, at_info, last_valid_state, last_valid_attributes,
                   restored_state, restored_attributes, added, hist>>

NextConfig == StepUser

SpecConfig == InitConfig /\ [][NextConfig]_vars

\* normalize_url is about to be applied to a URL
InitUrl ==
    /\ now = StartNow
    /\ cfg = [variant |-> "motis"]
    /\ data \in Urls
    /\ at_info = [access_token |-> Str("t0"), expires_on |-> MaxNow + 1]
    /\ last_valid_state = None
    /\ last_valid_attributes = None
    /\ restored_state = None
    /\ restored_attributes = None
    /\ added = FALSE
    /\ hist = [phase |-> "none", fresh |-> Unread, at |-> 0, auth |-> FALSE]
    /\ ret = [op |-> "init"]

\* MotisHub.__init__: self.url = normalize_url(url); applied again to its own result
ApplyNormalizeUrl ==
    /\ ret' = [op |-> "normalize_url", url |-> data, result |-> NormalizeUrl(data),
               again |-> NormalizeUrl(NormalizeUrl(data))]
    /\ UNCHANGED <<now, cfg, data, at_info, last_valid_state, last_valid_attributes,
                   restored_state, restored_attributes, added, hist>>

NextUrl == ApplyNormalizeUrl \/ Tick

SpecUrl == InitUrl /\ [][NextUrl]_vars

----------------------------------------------------------------------------
(* C37: the setup step of the stop-times integration *)

\* the value is empty, has leading or trailing whitespace, or starts with "url=" in
\* any case
Rejectable(value) ==
    \/ value = <<>>
    \/ value[1] = " "
    \/ value[Len(value)] = " "
    \/ StartsWith(LowerSeq(value), <<"u", "r", "l", "=">>)

\* the backend was contacted and answered with a body
BackendOk(contacted) ==
    /\ contacted # <<>>
    /\ contacted[1].outcome.k = "response"
    /\ contacted[1].outcome.status < 400
    /\ contacted[1].outcome.body # None

\* C37: an entry is created exactly when the submitted URL passes sanitize_credential
\* and the backend check succeeds, and it stores the URL as submitted; a URL that is
\* empty, has leading or trailing whitespace or starts with "url=" in any case is
\* rejected as invalid_format without contacting the backend; every other URL is
\* accepted and the backend is contacted.
C37_SetupStep ==
    [][(ret'.op \in {"create_entry", "form"}) =>
          /\ Rejectable(ret'.input) =>
                /\ ret'.op = "form"
                /\ ret'.errors = [url |-> "invalid_format"]
                /\ ret'.contacted = <<>>
          /\ ~Rejectable(ret'.input) => (ret'.contacted # <<>>)
          /\ (ret'.op = "create_entry") <=> (~Rejectable(ret'.input) /\ BackendOk(ret'.contacted))
          /\ (ret'.op = "create_entry") => (data' = [url |-> ret'.input])]_vars

\* an entry created for a URL with whitespace inside
C37_Witness ==
    /\ ret.op = "create_entry"
    /\ ret.input = <<"h", " ", "x">>
    /\ data = [url |-> ret.input]
    /\ BackendOk(ret.contacted)

----------------------------------------------------------------------------
(* C38: normalize_url *)

HasScheme(url) == StartsWith(url, Http) \/ StartsWith(url, Https)
NoTrailingSlash(url) == url = <<>> \/ url[Len(url)] # "/"

\* C38: for every input, normalize_url returns a URL that starts with http:// or
\* https:// and has no trailing slash, returns the default URL for the empty input,
\* and applying it to its own result changes nothing.
C38_NormalizeUrl ==
    (ret.op = "normalize_url") =>
        /\ HasScheme(ret.result)
        /\ NoTrailingSlash(ret.result)
        /\ (ret.url = <<>>) => (ret.result = CLIENT_API_URL)
        /\ ret.again = ret.result

====
